---- MODULE Spec2Model ----
(***************************************************************************)
(* Model of the CallTarget instrumentation engine of                        *)
(* OpenTelemetry.AutoInstrumentation.Native (cor_profiler.cpp).            *)
(*                                                                         *)
(* These specifications share this module:                                  *)
(*   Spec      - the profiler callbacks running on host threads over the   *)
(*               shared module map, the rejit handler and the attached flag*)
(*   SpecMatch - one module scan of CallTarget_RequestRejitForModule over  *)
(*               a bounded set of modules and integration catalogs         *)
(*   SpecExec  - the execution of a method body before and after           *)
(*               CallTarget_RewriterCallback rewrote it                    *)
(*   SpecRewrite - one call of CallTarget_RewriterCallback, from its first *)
(*               check to its return, over method shapes and host answers  *)
(*   SpecTokens - calls of GetWrapperMethodRef over the wrapper reference  *)
(*               caches of the module records, as records come and go      *)
(*   SpecLock  - the callbacks of two host threads as sequences of lock    *)
(*               acquisitions, releases and calls                          *)
(*   SpecRedirect, SpecRedirectFair - RedirectAssemblyReferences over the  *)
(*               AssemblyRef rows of the modules that load                 *)
(*   SpecHook  - the rewrite requests for one method while the modules of  *)
(*               its app domain load and unload, the profiler attached     *)
(*   SpecLoad  - the load and unload callbacks and the JIT queries, with   *)
(*               the core library among the modules and failing host calls *)
(***************************************************************************)
EXTENDS Integers, Sequences, FiniteSets, TLC

VARIABLES
    \* ---- SpecExec: the method under rewrite and the IL interpreter ----
    x_phase,      \* "init" | "orig" | "rewritten" | "done"
    x_body,       \* index of the original body in the body catalogue
    x_static,     \* the method is static (no receiver)
    x_arg,        \* the value of the method's argument
    x_beginHook,  \* behaviour of the begin-hook: "ok" | "throw"
    x_endHook,    \* behaviour of the end-hook: "pass" | "subst" | "throw"
    x_code,       \* instruction list being executed
    x_clauses,    \* exception-handling table being executed
    x_ip,         \* position of the next instruction in x_code
    x_stack,      \* evaluation stack
    x_locals,     \* the four locals the rewrite adds
    x_caught,     \* exception being handled by the innermost catch handler
    x_pending,    \* what an executing finally handler resumes at endfinally
    x_events,     \* hook and body events of the rewritten execution, in order
    x_origOut,    \* outcome of the original body
    x_newOut,     \* outcome of the rewritten body
    \* ---- SpecMatch: one module scan ----
    s_module,     \* the module being scanned
    s_catalog,    \* the integrations handed to the scan
    s_result,     \* what the scan did
    s_pc,
    \* ---- SpecRewrite: one call of CallTarget_RewriterCallback ----
    w_pc,         \* where the call is
    w_body,       \* index of the method's body in the body catalogue
    w_fi,         \* the FunctionInfo of the method (caller)
    w_wrapper,    \* what the lookups of the wrapper type and its methods found
    w_refs,       \* the step at which GetWrapperMethodRef returned
    w_seen,       \* the failures the call has met
    w_hr,         \* the HRESULT the call returned
    w_rewriter,   \* the ILRewriter's list: "none" | "imported" | "modified" | "exported"
    w_il,         \* the body the runtime holds for the method
    \* ---- SpecTokens: calls of GetWrapperMethodRef on the module records ----
    t_md,         \* per module: the wrapper references its ModuleMetadata has cached
                  \* and the references emitted into its metadata
    t_next,       \* the next token the metadata emitter hands out
    t_calls,      \* calls of GetWrapperMethodRef made so far
    t_call,       \* the last call: its arguments, its result and what it emitted
    t_resolved,   \* per module: the tokens the first successful call returned for a key
    \* ---- SpecLock: the acquisitions of module_id_to_info_map_lock_ ----
    l_th,         \* per host thread: the frames of the callback it runs, innermost last
    l_holder,     \* "free" or the thread that holds the mutex
    \* ---- SpecRedirect: RedirectAssemblyReferences over the modules that load ----
    assembly_version_redirect_map_, \* assembly name -> [version, ulRedirectionCount]
    ar_refs,      \* the AssemblyRef rows of the module being loaded: [name, version]
    ar_pos,       \* how many rows the enumeration has handed out
    ar_batch,     \* assembly_refs[0 .. assembly_refs_count): row numbers
    ar_i,         \* the for loop's i (counted from 1)
    ar_pc,        \* "idle", "enum" (at EnumAssemblyRefs), "for" (in the for loop)
    ar_hr,        \* the last result of EnumAssemblyRefs
    ar_loads,     \* calls of RedirectAssemblyReferences so far
    ar_host,      \* what the host answered in the last iteration of the for loop (history)
    ar_ended,     \* assembly name -> the versions at which processed references ended
                  \* when they ended at the redirection's version (history)
    \* ---- SpecInject: the loader injection of JITCompilationStarted ----
    is_desktop_iis,    \* set by Initialize from the process name
    loaderInjections,  \* app domain -> injections begun since the domain's last
                       \* AppDomainShutdownFinished (history)
    lastInjection,     \* the last injection: its domain and what the two steps answered
    \* ---- Spec: the profiler object and the host threads calling into it ----
    initialized,                          \* the host has called Initialize
    is_attached_,                         \* std::atomic_bool is_attached_
    rejit_handler,                        \* RejitHandler*: "null" | "live"
    rh_modules,                           \* the rejit handler's modules and their methods
    integration_methods_,                 \* the loaded integrations
    module_id_to_info_map_,               \* ModuleID -> ModuleMetadata*
    heap,                                 \* the ModuleMetadata records not yet deleted
    allocated,                            \* records allocated so far, per module
    managed_profiler_module_id_,
    managed_profiler_loaded_app_domains,
    first_jit_compilation_app_domains,
    module_id_to_info_map_lock_,          \* "free" or the thread holding the mutex
    hostLoaded,                           \* modules the runtime has loaded
    il_committed,                         \* body the runtime holds for the rejitted method
    th,                                   \* the callback each host thread is running
    registeredPairs,                      \* pairs stored for rewrite, module not unloaded
    profilerAssemblyDomains,              \* app domains the instrumentation assembly has
                                          \* finished loading into and is still loaded in
    corlib_module_loaded,
    lastReturn                            \* how the last callback that runs under the lock
                                          \* from entry to return ended

xvars == <<x_phase, x_body, x_static, x_arg, x_beginHook, x_endHook, x_code, x_clauses,
           x_ip, x_stack, x_locals, x_caught, x_pending, x_events, x_origOut, x_newOut>>
svars == <<s_module, s_catalog, s_result, s_pc>>
wvars == <<w_pc, w_body, w_fi, w_wrapper, w_refs, w_seen, w_hr, w_rewriter, w_il>>
pvars == <<initialized, is_attached_, rejit_handler, rh_modules, integration_methods_,
           module_id_to_info_map_, heap, allocated, managed_profiler_module_id_,
           managed_profiler_loaded_app_domains, first_jit_compilation_app_domains,
           module_id_to_info_map_lock_, hostLoaded, il_committed, th,
           registeredPairs, profilerAssemblyDomains, corlib_module_loaded, lastReturn>>
tvars == <<t_md, t_next, t_calls, t_call, t_resolved>>
lvars == <<l_th, l_holder>>
avars == <<assembly_version_redirect_map_, ar_refs, ar_pos, ar_batch, ar_i, ar_pc, ar_hr,
           ar_loads, ar_host, ar_ended>>
jvars == <<is_desktop_iis, loaderInjections, lastInjection>>
vars == <<xvars, svars, wvars, tvars, lvars, avars, jvars, pvars>>

(***************************************************************************)
(* Instruction lists.  An instruction keeps its identity (id) when other   *)
(* instructions are inserted around it; branch targets and the boundaries  *)
(* of exception-handling clauses name instructions by identity, as the     *)
(* ILInstr pointers m_pTarget, m_pTryBegin, ... do.                        *)
(***************************************************************************)
NoId == <<"", 0>>
OrigId(k) == <<"orig", k>>
NewId(name) == <<name, 0>>

Instr(id, op, arg, tgt, loc) == [id |-> id, op |-> op, arg |-> arg, tgt |-> tgt, loc |-> loc]
Op(id, op) == Instr(id, op, 0, NoId, "")
OpArg(id, op, arg) == Instr(id, op, arg, NoId, "")
OpTgt(id, op, tgt) == Instr(id, op, 0, tgt, "")
OpLoc(id, op, loc) == Instr(id, op, 0, NoId, loc)

Clause(flags, tb, te, hb, he) ==
    [flags |-> flags, tryBegin |-> tb, tryEnd |-> te, handlerBegin |-> hb, handlerEnd |-> he]

\* position of the instruction with identity id in code (0 if absent)
Pos(code, id) ==
    IF \E i \in 1..Len(code) : code[i].id = id
    THEN CHOOSE i \in 1..Len(code) : code[i].id = id
    ELSE 0

RECURSIVE Concat(_)
Concat(ss) == IF Len(ss) = 0 THEN <<>> ELSE Head(ss) \o Concat(Tail(ss))

(***************************************************************************)
(* The catalogue of original method bodies.  Every body is verifiable IL   *)
(* of a method with one argument; argIdx is the index of that argument     *)
(* (0 for a static method, 1 for an instance method).                      *)
(***************************************************************************)
NumBodies == 7

BodyIsVoid(b) == b \in {2, 4}

BodyCode(b, argIdx) ==
    CASE b = 1 ->  \* return v1;
           << OpLoc(OrigId(1), "ldc", "v1"), Op(OrigId(2), "ret") >>
      [] b = 2 ->  \* void, one return point
           << Op(OrigId(1), "nop"), Op(OrigId(2), "ret") >>
      [] b = 3 ->  \* if (x) return v2; return v1;     (two return points)
           << OpArg(OrigId(1), "ldarg", argIdx), OpTgt(OrigId(2), "brtrue", OrigId(5)),
              OpLoc(OrigId(3), "ldc", "v1"), Op(OrigId(4), "ret"),
              OpLoc(OrigId(5), "ldc", "v2"), Op(OrigId(6), "ret") >>
      [] b = 4 ->  \* void: if (x) return; throw e;
           << OpArg(OrigId(1), "ldarg", argIdx), OpTgt(OrigId(2), "brtrue", OrigId(4)),
              OpLoc(OrigId(3), "throw", "E_body"), Op(OrigId(4), "ret") >>
      [] b = 5 ->  \* return x ? v2 : v1;   (both branches join at the one ret)
           << OpArg(OrigId(1), "ldarg", argIdx), OpTgt(OrigId(2), "brtrue", OrigId(5)),
              OpLoc(OrigId(3), "ldc", "v1"), OpTgt(OrigId(4), "br", OrigId(6)),
              OpLoc(OrigId(5), "ldc", "v2"), Op(OrigId(6), "ret") >>
      [] b = 6 ->  \* try { throw e; } catch { } return v3;    (one original clause)
           << OpLoc(OrigId(1), "throw", "E_body"),
              Op(OrigId(2), "pop"), OpTgt(OrigId(3), "leave", OrigId(4)),
              OpLoc(OrigId(4), "ldc", "v3"), Op(OrigId(5), "ret") >>
      [] OTHER ->  \* if (x) throw e; return v1;
           << OpArg(OrigId(1), "ldarg", argIdx), OpTgt(OrigId(2), "brtrue", OrigId(5)),
              OpLoc(OrigId(3), "ldc", "v1"), Op(OrigId(4), "ret"),
              OpLoc(OrigId(5), "throw", "E_body") >>

BodyClauses(b) ==
    IF b = 6 THEN << Clause("catch", OrigId(1), OrigId(2), OrigId(2), OrigId(3)) >>
    ELSE <<>>

(***************************************************************************)
(* CallTarget_RewriterCallback: the IL transformation.                      *)
(*                                                                         *)
(* fi is the FunctionInfo of the method (caller):                          *)
(*   isVoid, isStatic, valueType, hasTypeSpec (type_spec != mdTypeSpecNil),*)
(*   isGeneric, args (one [byRef, boxed, tokOk] per declared argument)     *)
(* env is what the host and the token helpers answer during this rewrite:  *)
(*   importOk, writeBeginOk, exportOk                                      *)
(***************************************************************************)
FASTPATH_COUNT == 9

\* "Load instance into the stack (if not static)"; name is the identity of the first
\* instruction emitted
LoadInstance(fi, name) ==
    IF fi.isStatic
    THEN << Op(NewId(name), "ldnull") >>
    ELSE << OpArg(NewId(name), "ldarg", 0) >> \o
         (IF fi.valueType THEN << Op(<<name, 1>>, "ldobj") >> ELSE <<>>)

InstanceAbort_StaticOnly(fi) == fi.isStatic /\ fi.valueType

\* the two returns S_FALSE of the instance load
InstanceAbort(fi) ==
    \/ fi.isStatic /\ fi.valueType
    \/ ~fi.isStatic /\ fi.valueType /\ ~fi.hasTypeSpec /\ fi.isGeneric

ArgIndex(fi, i) == (i - 1) + (IF fi.isStatic THEN 0 ELSE 1)

LoadArguments_FastPathAtThreshold(fi) ==
    LET n == Len(fi.args) IN
    IF n <= FASTPATH_COUNT
    THEN [i \in 1..n |-> OpArg(<<"LoadArgument", i>>, "ldarg", ArgIndex(fi, i))]
    ELSE << OpArg(NewId("CreateArray"), "newarr", n) >>

\* "Load the method arguments to the stack"
LoadArguments(fi) ==
    LET n == Len(fi.args) IN
    IF n < FASTPATH_COUNT
    THEN [i \in 1..n |-> OpArg(<<"LoadArgument", i>>, "ldarg", ArgIndex(fi, i))]
    ELSE << OpArg(NewId("CreateArray"), "newarr", n) >> \o
         Concat([i \in 1..n |->
            << OpArg(<<"BeginLoadValueIntoArray", i>>, "dup_ldc", i - 1),
               OpArg(<<"LoadArgument", i>>, "ldarg", ArgIndex(fi, i)) >> \o
            (IF fi.args[i].boxed THEN << OpArg(<<"Box", i>>, "box", i) >> ELSE <<>>) \o
            << Op(<<"EndLoadValueIntoArray", i>>, "stelem_ref") >>])

ArgumentsAbort_FastPathOnly(fi) ==
    \/ Len(fi.args) < FASTPATH_COUNT /\ \E i \in 1..Len(fi.args) : fi.args[i].byRef
    \/ /\ Len(fi.args) >= FASTPATH_COUNT
       /\ \E i \in 1..Len(fi.args) : fi.args[i].boxed /\ ~fi.args[i].tokOk

\* the returns S_FALSE of the argument load: a by-reference argument on either path, a
\* boxed argument whose type token cannot be obtained on the slow path
ArgumentsAbort(fi) ==
    \/ \E i \in 1..Len(fi.args) : fi.args[i].byRef
    \/ /\ Len(fi.args) >= FASTPATH_COUNT
       /\ \E i \in 1..Len(fi.args) : fi.args[i].boxed /\ ~fi.args[i].tokOk

BeginMethodPart_DropsState(fi, beginOriginalMethodInstr) ==
    << Op(NewId("firstInstruction"), "initlocals") >> \o
    LoadInstance(fi, "beginLoadInstance") \o
    LoadArguments(fi) \o
    << Op(NewId("beginCallInstruction"), "call_begin"),
       Op(NewId("stlocCallTargetState"), "pop"),
       OpTgt(NewId("pStateLeaveToBeginOriginalMethodInstr"), "leave", beginOriginalMethodInstr),
       Op(NewId("beginMethodCatchFirstInstr"), "call_logexception"),
       OpTgt(NewId("beginMethodCatchLeaveInstr"), "leave", beginOriginalMethodInstr) >>

\* begin-hook call, its result stored into the state local, and the catch around it
BeginMethodPart(fi, beginOriginalMethodInstr) ==
    << Op(NewId("firstInstruction"), "initlocals") >> \o
    LoadInstance(fi, "beginLoadInstance") \o
    LoadArguments(fi) \o
    << Op(NewId("beginCallInstruction"), "call_begin"),
       OpLoc(NewId("stlocCallTargetState"), "stloc", "callTargetState"),
       OpTgt(NewId("pStateLeaveToBeginOriginalMethodInstr"), "leave", beginOriginalMethodInstr),
       Op(NewId("beginMethodCatchFirstInstr"), "call_logexception"),
       OpTgt(NewId("beginMethodCatchLeaveInstr"), "leave", beginOriginalMethodInstr) >>

\* the catch handler of the outer clause: store the exception, rethrow
ExceptionCatchPart ==
    << OpLoc(NewId("startExceptionCatch"), "stloc", "exception"),
       Op(NewId("rethrowInstr"), "rethrow") >>

\* the finally handler: end-hook call in its own try/catch, then endfinally
EndMethodPart(fi) ==
    LoadInstance(fi, "endMethodTryStartInstr") \o
    (IF fi.isVoid THEN <<>> ELSE << OpLoc(NewId("ldlocReturnValue"), "ldloc", "returnValue") >>) \o
    << OpLoc(NewId("ldlocException"), "ldloc", "exception"),
       OpLoc(NewId("ldlocCallTargetState"), "ldloc", "callTargetState"),
       Op(NewId("endMethodCallInstr"), "call_end"),
       OpLoc(NewId("stlocCallTargetReturn"), "stloc", "callTargetReturn") >> \o
    (IF fi.isVoid THEN <<>>
     ELSE << OpLoc(NewId("ldlocaCallTargetReturn"), "ldloca", "callTargetReturn"),
             Op(NewId("callTargetReturnGetReturnInstr"), "call_getreturnvalue"),
             OpLoc(NewId("stlocReturnValueFromHook"), "stloc", "returnValue") >>) \o
    << OpTgt(NewId("endMethodTryLeave"), "leave", NewId("endFinallyInstr")),
       Op(NewId("endMethodCatchFirstInstr"), "call_logexception"),
       OpTgt(NewId("endMethodCatchLeaveInstr"), "leave", NewId("endFinallyInstr")),
       Op(NewId("endFinallyInstr"), "endfinally") >>

MethodReturnPart_NoLoad(fi) == << Op(NewId("methodReturnInstr"), "ret") >>

\* "Load the current return value from the local var" and the single real return
MethodReturnPart(fi) ==
    (IF fi.isVoid THEN <<>> ELSE << OpLoc(NewId("epilogueLoadReturnValue"), "ldloc", "returnValue") >>) \o
    << Op(NewId("methodReturnInstr"), "ret") >>

ChangeReturn_KeepsReturn(instr, k, isVoid, target) == << instr >>

\* "Changes all returns to a LEAVE.S": the instruction itself becomes the leave (it keeps
\* its identity, so whatever branched to the return now branches to the leave) and for
\* a non-void method a store of the return value is inserted before it
ChangeReturn(instr, k, isVoid, target) ==
    (IF isVoid THEN <<>> ELSE << OpLoc(<<"stlocReturnValue", k>>, "stloc", "returnValue") >>) \o
    << [instr EXCEPT !.op = "leave", !.tgt = target] >>

ChangeReturnsToLeave(code, isVoid, target) ==
    Concat([k \in 1..Len(code) |->
        IF code[k].op = "ret" /\ code[k].id # NewId("methodReturnInstr")
        THEN ChangeReturn(code[k], k, isVoid, target)
        ELSE << code[k] >>])

\* the four clauses with the outer catch ahead of the guards it encloses
NewEHClauses_OuterFirst(endMethodTryStartInstr) ==
    << Clause("catch", NewId("firstInstruction"), NewId("startExceptionCatch"),
              NewId("startExceptionCatch"), NewId("rethrowInstr")),
       Clause("catch", NewId("firstInstruction"), NewId("beginMethodCatchFirstInstr"),
              NewId("beginMethodCatchFirstInstr"), NewId("beginMethodCatchLeaveInstr")),
       Clause("catch", NewId("endMethodTryStartInstr"), NewId("endMethodCatchFirstInstr"),
              NewId("endMethodCatchFirstInstr"), NewId("endMethodCatchLeaveInstr")),
       Clause("finally", NewId("firstInstruction"), endMethodTryStartInstr,
              endMethodTryStartInstr, NewId("endFinallyInstr")) >>

\* the four clauses the rewrite builds
NewEHClauses(endMethodTryStartInstr) ==
    << Clause("catch", NewId("firstInstruction"), NewId("beginMethodCatchFirstInstr"),
              NewId("beginMethodCatchFirstInstr"), NewId("beginMethodCatchLeaveInstr")),
       Clause("catch", NewId("endMethodTryStartInstr"), NewId("endMethodCatchFirstInstr"),
              NewId("endMethodCatchFirstInstr"), NewId("endMethodCatchLeaveInstr")),
       Clause("catch", NewId("firstInstruction"), NewId("startExceptionCatch"),
              NewId("startExceptionCatch"), NewId("rethrowInstr")),
       Clause("finally", NewId("firstInstruction"), endMethodTryStartInstr,
              endMethodTryStartInstr, NewId("endFinallyInstr")) >>

MergeEHClauses_NewFirst(ehPointer, new) == new \o ehPointer

\* "Update and Add exception clauses": the original clauses, then the new ones
MergeEHClauses(ehPointer, new) == ehPointer \o new

RewriteAborts_IgnoresExport(fi, env) ==
    \/ ~env.importOk
    \/ InstanceAbort(fi)
    \/ ArgumentsAbort(fi)
    \/ ~env.writeBeginOk

RewriteAborts(fi, env) ==
    \/ ~env.importOk
    \/ InstanceAbort(fi)
    \/ ArgumentsAbort(fi)
    \/ ~env.writeBeginOk
    \/ ~env.exportOk

\* the instruction list and clause table handed to ILRewriter.Export
RewrittenCode(fi, code) ==
    LET assembled == BeginMethodPart(fi, code[1].id) \o code \o ExceptionCatchPart \o
                     EndMethodPart(fi) \o MethodReturnPart(fi)
        endFinallyNext == assembled[Pos(assembled, NewId("endFinallyInstr")) + 1].id
    IN  ChangeReturnsToLeave(assembled, fi.isVoid, endFinallyNext)

RewrittenClauses(fi, code, ehPointer) ==
    LET assembled == RewrittenCode(fi, code)
        rethrowNext == assembled[Pos(assembled, NewId("rethrowInstr")) + 1].id
    IN  MergeEHClauses(ehPointer, NewEHClauses(rethrowNext))

\* the part of CallTarget_RewriterCallback from ILRewriter.Import to ILRewriter.Export
CallTarget_Rewrite(fi, env, code, ehPointer) ==
    IF RewriteAborts(fi, env)
    THEN [hr |-> "S_FALSE", code |-> code, clauses |-> ehPointer]
    ELSE [hr |-> "S_OK", code |-> RewrittenCode(fi, code),
          clauses |-> RewrittenClauses(fi, code, ehPointer)]

(***************************************************************************)
(* Execution of an instruction list with its exception-handling table, as  *)
(* the runtime executes it: the first clause in table order whose          *)
(* protected region holds the throwing instruction handles the exception,  *)
(* finally handlers run when a leave or an exception exits their protected *)
(* region, endfinally resumes what entered the handler.                    *)
(* A machine state m is [ip, stack, locals, caught, pending, events, out]. *)
(***************************************************************************)
NoOutcome == [kind |-> "none", val |-> ""]
Event(e, state, exc, ret) == [e |-> e, state |-> state, exc |-> exc, ret |-> ret]

DefaultLocals ==
    [returnValue |-> "default", callTargetState |-> "stateDefault",
     callTargetReturn |-> "returnDefault", exception |-> "null"]

InitialMachine ==
    [ip |-> 1, stack |-> <<>>, locals |-> DefaultLocals, caught |-> "", pending |-> <<>>,
     events |-> <<>>, out |-> NoOutcome]

InTry(code, c, p) == Pos(code, c.tryBegin) <= p /\ p < Pos(code, c.tryEnd)

Push(m, v) == [m EXCEPT !.stack = Append(@, v), !.ip = @ + 1]
Top(m) == m.stack[Len(m.stack)]
Pop1(stack) == SubSeq(stack, 1, Len(stack) - 1)

\* an exception exc raised by the instruction at position p
Raise(code, clauses, m, p, exc) ==
    LET holding == {j \in 1..Len(clauses) : InTry(code, clauses[j], p)}
        catches == {j \in holding : clauses[j].flags = "catch"}
        c == IF catches = {} THEN Len(clauses) + 1
             ELSE CHOOSE j \in catches : \A k \in catches : j <= k
        finallys == {j \in holding : clauses[j].flags = "finally" /\ j < c}
    IN  IF finallys # {}
        THEN LET f == CHOOSE j \in finallys : \A k \in finallys : j <= k IN
             [m EXCEPT !.ip = Pos(code, clauses[f].handlerBegin), !.stack = <<>>,
                       !.pending = Append(@, [kind |-> "throw", tgt |-> NoId, exc |-> exc])]
        ELSE IF catches # {}
        THEN [m EXCEPT !.ip = Pos(code, clauses[c].handlerBegin), !.stack = <<exc>>,
                       !.caught = exc]
        ELSE [m EXCEPT !.ip = 0, !.stack = <<>>, !.out = [kind |-> "throw", val |-> exc]]

\* a leave at position p to the instruction tgt
Leave(code, clauses, m, p, tgt) ==
    LET t == Pos(code, tgt)
        finallys == {j \in 1..Len(clauses) :
                        /\ clauses[j].flags = "finally"
                        /\ InTry(code, clauses[j], p)
                        /\ ~InTry(code, clauses[j], t)}
    IN  IF finallys # {}
        THEN LET f == CHOOSE j \in finallys : \A k \in finallys : j <= k IN
             [m EXCEPT !.ip = Pos(code, clauses[f].handlerBegin), !.stack = <<>>,
                       !.pending = Append(@, [kind |-> "leave", tgt |-> tgt, exc |-> ""])]
        ELSE [m EXCEPT !.ip = t, !.stack = <<>>]

EndFinally(code, clauses, m, p) ==
    LET r == m.pending[Len(m.pending)]
        m1 == [m EXCEPT !.pending = Pop1(@)]
    IN  IF r.kind = "leave" THEN Leave(code, clauses, m1, p, r.tgt)
        ELSE Raise(code, clauses, m1, p, r.exc)

\* the begin-hook: the receiver and the arguments are on the stack
CallBegin(code, clauses, m, p, static, arg, beginHook) ==
    LET m1 == [m EXCEPT !.events = Append(@, Event("begin", "", "", ""))] IN
    IF beginHook = "throw" THEN Raise(code, clauses, m1, p, "E_begin")
    ELSE [m1 EXCEPT !.stack = <<"state1">>, !.ip = @ + 1]

\* the end-hook: receiver, return value (non-void), exception and state are on the stack;
\* its result object carries the return value it hands back
CallEnd(code, clauses, m, p, endHook) ==
    LET n == Len(m.stack)
        nonVoid == n = 4
        passed == IF nonVoid THEN m.stack[2] ELSE "void"
        m1 == [m EXCEPT !.events = Append(@, Event("end", m.stack[n], m.stack[n - 1], passed))]
    IN  IF endHook = "throw" THEN Raise(code, clauses, m1, p, "E_end")
        ELSE [m1 EXCEPT !.stack = << IF endHook = "subst" /\ nonVoid THEN "vSubst" ELSE passed >>,
                        !.ip = @ + 1]

\* one instruction
StepInstr(code, clauses, m, static, arg, beginHook, endHook) ==
    LET p == m.ip
        i == code[p]
    IN  CASE i.op \in {"nop", "ldobj", "box"} -> [m EXCEPT !.ip = @ + 1]
          [] i.op = "initlocals" -> [m EXCEPT !.locals = DefaultLocals, !.ip = @ + 1]
          [] i.op = "ldc" -> Push(m, i.loc)
          [] i.op = "ldnull" -> Push(m, "null")
          [] i.op = "ldarg" -> Push(m, IF ~static /\ i.arg = 0 THEN "this" ELSE arg)
          [] i.op = "newarr" -> Push(m, "array")
          [] i.op = "dup_ldc" -> [m EXCEPT !.stack = @ \o <<"array", "index">>, !.ip = @ + 1]
          [] i.op = "stelem_ref" -> [m EXCEPT !.stack = SubSeq(@, 1, Len(@) - 3), !.ip = @ + 1]
          [] i.op = "pop" -> [m EXCEPT !.stack = Pop1(@), !.ip = @ + 1]
          [] i.op = "br" -> [m EXCEPT !.ip = Pos(code, i.tgt)]
          [] i.op = "brtrue" ->
                [m EXCEPT !.stack = Pop1(@),
                          !.ip = IF Top(m) # "a0" THEN Pos(code, i.tgt) ELSE p + 1]
          [] i.op = "ldloc" -> Push(m, m.locals[i.loc])
          [] i.op = "ldloca" -> Push(m, i.loc)
          [] i.op = "stloc" ->
                [m EXCEPT !.locals[i.loc] = Top(m), !.stack = Pop1(@), !.ip = @ + 1]
          [] i.op = "call_begin" -> CallBegin(code, clauses, m, p, static, arg, beginHook)
          [] i.op = "call_end" -> CallEnd(code, clauses, m, p, endHook)
          [] i.op = "call_getreturnvalue" ->
                [m EXCEPT !.stack = Append(Pop1(@), m.locals[Top(m)]), !.ip = @ + 1]
          [] i.op = "call_logexception" -> [m EXCEPT !.stack = <<>>, !.ip = @ + 1]
          [] i.op = "throw" -> Raise(code, clauses, m, p, i.loc)
          [] i.op = "rethrow" -> Raise(code, clauses, m, p, m.caught)
          [] i.op = "leave" -> Leave(code, clauses, m, p, i.tgt)
          [] i.op = "endfinally" -> EndFinally(code, clauses, m, p)
          [] OTHER ->  \* ret: the value on the stack, if any, is the method's result
                [m EXCEPT !.ip = 0, !.stack = <<>>,
                          !.out = [kind |-> "ret",
                                   val |-> IF m.stack = <<>> THEN "void" ELSE Top(m)]]

\* an instruction of the original body is being executed: the body event
BodyEvent(code, m) ==
    IF code[m.ip].id[1] = "orig" /\ (m.events = <<>> \/ m.events[Len(m.events)].e # "body")
    THEN [m EXCEPT !.events = Append(@, Event("body", "", "", ""))]
    ELSE m

Machine ==
    [ip |-> x_ip, stack |-> x_stack, locals |-> x_locals, caught |-> x_caught,
     pending |-> x_pending, events |-> x_events,
     out |-> IF x_phase = "orig" THEN x_origOut ELSE x_newOut]

SetMachine(m) ==
    /\ x_ip' = m.ip
    /\ x_stack' = m.stack
    /\ x_locals' = m.locals
    /\ x_caught' = m.caught
    /\ x_pending' = m.pending
    /\ x_events' = m.events

(***************************************************************************)
(* SpecExec: run the original body, rewrite it, run the rewritten body.    *)
(***************************************************************************)
ExecFunctionInfo ==
    [isVoid |-> BodyIsVoid(x_body), isStatic |-> x_static, valueType |-> FALSE,
     hasTypeSpec |-> FALSE, isGeneric |-> FALSE,
     args |-> << [byRef |-> FALSE, boxed |-> FALSE, tokOk |-> TRUE] >>]

HostOk == [importOk |-> TRUE, writeBeginOk |-> TRUE, exportOk |-> TRUE]

ExecInit ==
    /\ x_phase = "orig"
    /\ x_body \in 1..NumBodies
    /\ x_static \in BOOLEAN
    /\ x_arg \in {"a0", "a1"}
    /\ x_beginHook \in {"ok", "throw"}
    /\ x_endHook \in {"pass", "subst", "throw"}
    /\ x_code = BodyCode(x_body, IF x_static THEN 0 ELSE 1)
    /\ x_clauses = BodyClauses(x_body)
    /\ x_ip = 1
    /\ x_stack = <<>>
    /\ x_locals = DefaultLocals
    /\ x_caught = ""
    /\ x_pending = <<>>
    /\ x_events = <<>>
    /\ x_origOut = NoOutcome
    /\ x_newOut = NoOutcome

ExecIdle ==
    /\ x_phase = "init"
    /\ x_body = 1
    /\ x_static = TRUE
    /\ x_arg = "a0"
    /\ x_beginHook = "ok"
    /\ x_endHook = "pass"
    /\ x_code = <<>>
    /\ x_clauses = <<>>
    /\ x_ip = 0
    /\ x_stack = <<>>
    /\ x_locals = DefaultLocals
    /\ x_caught = ""
    /\ x_pending = <<>>
    /\ x_events = <<>>
    /\ x_origOut = NoOutcome
    /\ x_newOut = NoOutcome

\* the runtime executes the next instruction of the original body
RunOriginal ==
    /\ x_phase = "orig"
    /\ x_origOut.kind = "none"
    /\ LET m == StepInstr(x_code, x_clauses, Machine, x_static, x_arg, x_beginHook, x_endHook)
       IN  SetMachine(m) /\ x_origOut' = m.out
    /\ UNCHANGED <<x_phase, x_body, x_static, x_arg, x_beginHook, x_endHook, x_code,
                   x_clauses, x_newOut>>

\* CallTarget_RewriterCallback rewrites the body and exports it
RewriteBody ==
    /\ x_phase = "orig"
    /\ x_origOut.kind # "none"
    /\ LET r == CallTarget_Rewrite(ExecFunctionInfo, HostOk,
                                   BodyCode(x_body, IF x_static THEN 0 ELSE 1),
                                   BodyClauses(x_body))
       IN  /\ x_phase' = IF r.hr = "S_OK" THEN "rewritten" ELSE "done"
           /\ x_code' = r.code
           /\ x_clauses' = r.clauses
    /\ SetMachine(InitialMachine)
    /\ UNCHANGED <<x_body, x_static, x_arg, x_beginHook, x_endHook, x_origOut, x_newOut>>

\* the runtime executes the next instruction of the rewritten body
RunRewritten ==
    /\ x_phase = "rewritten"
    /\ x_newOut.kind = "none"
    /\ LET m == StepInstr(x_code, x_clauses, BodyEvent(x_code, Machine),
                          x_static, x_arg, x_beginHook, x_endHook)
       IN  SetMachine(m) /\ x_newOut' = m.out
    /\ UNCHANGED <<x_phase, x_body, x_static, x_arg, x_beginHook, x_endHook, x_code,
                   x_clauses, x_origOut>>


(***************************************************************************)
(* CallTarget_RequestRejitForModule: the module scan.                      *)
(*                                                                         *)
(* A module is [assemblyName, version, types, methods]; a method of it is  *)
(* [token, type, name, valid, parses, args] where valid is                 *)
(* FunctionInfo.IsValid(), parses is the outcome of TryParse and args the  *)
(* resolved type names of the declared arguments.  An integration is       *)
(* [assembly, min_version, max_version, type_name, method_name,            *)
(* signature_types]; signature_types[1] is the return type.                *)
(***************************************************************************)
\* Version::operator< (major, then minor)
VersionLess(a, b) == a[1] < b[1] \/ (a[1] = b[1] /\ a[2] < b[2])
VersionGreater(a, b) == VersionLess(b, a)

IntegrationIsForModule_Exclusive(integration, md) ==
    /\ ~(integration.assembly # md.assemblyName)
    /\ VersionLess(integration.min_version, md.version)
    /\ VersionGreater(integration.max_version, md.version)

\* the three "continue"s before the type lookup: the integration is for this assembly
\* and the assembly version is inside [min_version, max_version]
IntegrationIsForModule(integration, md) ==
    /\ ~(integration.assembly # md.assemblyName)
    /\ ~VersionGreater(integration.min_version, md.version)
    /\ ~VersionLess(integration.max_version, md.version)

\* FindTypeDefByName
FoundType(integration, md) == integration.type_name \in md.types

\* EnumMethodsWithName: the methods of the type with the target name, in token order
EnumMethodsWithName(md, typeName, methodName) ==
    SelectSeq(md.methods, LAMBDA m : m.type = typeName /\ m.name = methodName)

LowerCase(name) == IF name = "Int32" THEN "int32" ELSE name

ArgumentDiffers_IgnoreCase(argumentTypeName, integrationArgumentTypeName) ==
    /\ LowerCase(argumentTypeName) # LowerCase(integrationArgumentTypeName)
    /\ integrationArgumentTypeName # "_"

\* the comparison of one argument type name with the integration's entry
ArgumentDiffers(argumentTypeName, integrationArgumentTypeName) ==
    argumentTypeName # integrationArgumentTypeName /\ integrationArgumentTypeName # "_"

\* numOfArgs != signature_types.size() - 1
WrongNumberOfArguments(method, integration) ==
    Len(method.args) # Len(integration.signature_types) - 1

ArgumentsMismatch(method, integration) ==
    \E i \in 1..Len(method.args) :
        ArgumentDiffers(method.args[i], integration.signature_types[i + 1])

\* the method reaches "As we are in the right method ..."
MethodIsTarget(method, integration) ==
    /\ method.valid
    /\ method.parses
    /\ ~WrongNumberOfArguments(method, integration)
    /\ ~ArgumentsMismatch(method, integration)

\* the (integration index, method token) pairs the scan stores into the rejit handler
\* and pushes onto vtMethodDefs, in the order of the two loops
RECURSIVE ScanIntegrations(_, _, _)
ScanIntegrations(md, integrations, k) ==
    IF k > Len(integrations) THEN <<>>
    ELSE LET integration == integrations[k]
             methods == IF IntegrationIsForModule(integration, md) /\ FoundType(integration, md)
                        THEN EnumMethodsWithName(md, integration.type_name,
                                                 integration.method_name)
                        ELSE <<>>
             targets == SelectSeq(methods, LAMBDA m : MethodIsTarget(m, integration))
         IN  [j \in 1..Len(targets) |-> <<k, targets[j].token>>] \o
             ScanIntegrations(md, integrations, k + 1)

\* the integrations for which the scan called FindTypeDefByName
TypeLookups(md, integrations) ==
    {k \in 1..Len(integrations) : IntegrationIsForModule(integrations[k], md)}

RECURSIVE StoreMethods_KeepsFirst(_, _)
StoreMethods_KeepsFirst(entries, pairs) ==
    IF pairs = <<>> THEN entries
    ELSE StoreMethods_KeepsFirst([t \in DOMAIN entries \cup {Head(pairs)[2]} |->
                                     IF t \in DOMAIN entries THEN entries[t] ELSE Head(pairs)[1]],
                                 Tail(pairs))

\* rejit handler entries after the stores: a later store for the same token replaces
\* the function info and the method replacement of an earlier one
RECURSIVE StoreMethods(_, _)
StoreMethods(entries, pairs) ==
    IF pairs = <<>> THEN entries
    ELSE StoreMethods([t \in DOMAIN entries \cup {Head(pairs)[2]} |->
                          IF t = Head(pairs)[2] THEN Head(pairs)[1] ELSE entries[t]],
                      Tail(pairs))

RequestRejit_PerMethod(vtMethodDefs) ==
    [j \in 1..Len(vtMethodDefs) |-> << vtMethodDefs[j] >>]

\* "Request the ReJIT for all integrations found in the module.": the calls of
\* rejit_handler->RequestRejit, each with the method tokens it carries
RequestRejit(vtMethodDefs) ==
    IF vtMethodDefs # <<>> THEN << vtMethodDefs >> ELSE <<>>

CallTarget_RequestRejitForModule(md, integrations) ==
    LET pairs == ScanIntegrations(md, integrations, 1)
        vtMethodDefs == [j \in 1..Len(pairs) |-> pairs[j][2]]
    IN  [typeLookups |-> TypeLookups(md, integrations),
         stored |-> pairs,
         methods |-> StoreMethods(<<>>, pairs),
         vtMethodDefs |-> vtMethodDefs,
         requestRejit |-> RequestRejit(vtMethodDefs),
         requestRejitForNGenInliners |-> IF vtMethodDefs # <<>> THEN 1 ELSE 0]

(***************************************************************************)
(* SpecMatch: one scan over every module and catalog of the bounded sets.  *)
(***************************************************************************)
MaxArgs == 2

TypeNames == {"Int32", "int32"}
Versions == {<<1, 0>>, <<1, 1>>, <<2, 0>>}
ArgLists(S) == UNION {[1..n -> S] : n \in 0..MaxArgs}

Method(token, args, status) ==
    [token |-> token, type |-> "Foo", name |-> "Bar", valid |-> status # "invalid",
     parses |-> status # "unparsed", args |-> args]

WildcardIntegration ==
    [assembly |-> "App", min_version |-> <<1, 0>>, max_version |-> <<2, 0>>,
     type_name |-> "Foo", method_name |-> "Bar", signature_types |-> <<"Void", "_">>]

MatchInit ==
    /\ s_pc = "scan"
    /\ s_result = <<>>
    /\ \E version \in Versions, args \in ArgLists(TypeNames),
          status \in {"ok", "invalid", "unparsed"} :
          s_module = [assemblyName |-> "App", version |-> version, types |-> {"Foo"},
                      methods |-> << Method(1, args, status), Method(2, <<"Int32">>, "ok"),
                                     [Method(3, <<"Int32">>, "ok") EXCEPT !.name = "Baz"] >>]
    /\ \E assembly \in {"App", "Other"}, min \in Versions, max \in Versions,
          type \in {"Foo", "Missing"}, sig \in ArgLists(TypeNames \cup {"_"}),
          two \in BOOLEAN :
          s_catalog = << [assembly |-> assembly, min_version |-> min, max_version |-> max,
                          type_name |-> type, method_name |-> "Bar",
                          signature_types |-> <<"Void">> \o sig] >> \o
                      (IF two THEN << WildcardIntegration >> ELSE <<>>)

MatchIdle ==
    /\ s_module = <<>>
    /\ s_catalog = <<>>
    /\ s_result = <<>>
    /\ s_pc = "idle"

\* ModuleLoadFinished hands the module to the scan
RequestRejitForModule ==
    /\ s_pc = "scan"
    /\ s_result' = CallTarget_RequestRejitForModule(s_module, s_catalog)
    /\ s_pc' = "done"
    /\ UNCHANGED <<s_module, s_catalog>>

(***************************************************************************)
(* Spec: the profiler object under the callbacks of concurrent host        *)
(* threads.  A thread is named after the callback it delivers; a callback  *)
(* advances at its synchronisation points: the check of is_attached_ on    *)
(* entry, the section under module_id_to_info_map_lock_, and what the code *)
(* does after the lock_guard's scope has ended.                            *)
(***************************************************************************)
MaxLoads == 1       \* times the runtime loads one module

managed_profiler_name == "OpenTelemetry.AutoInstrumentation"
loader_name == "OpenTelemetry.AutoInstrumentation.Loader"

ModuleIds == {1, 2, 3}
\* a second application module, without a target method (used by SpecHook)
LibModuleId == 4
\* the core library (used by SpecLoad)
CorlibModuleId == 5
system_private_corelib_assemblyName == "System.Private.CoreLib"
WebModuleId == 6
AllModuleIds == ModuleIds \cup {LibModuleId, CorlibModuleId, WebModuleId}
Tokens == {1, 2}
NoPtr == <<0, 0>>

\* the application module has the integration's target Foo.Bar(Int32) as token 1
AppMetadata ==
    [assemblyName |-> "App", version |-> <<1, 0>>, types |-> {"Foo"},
     methods |-> << Method(1, <<"Int32">>, "ok"),
                    [Method(2, <<"Int32">>, "ok") EXCEPT !.name = "Baz"] >>]

HostModule(m) ==
    CASE m = 1 -> [app_domain_id |-> 1, md |-> AppMetadata]
      [] m = 2 -> [app_domain_id |-> 1,
                   md |-> [assemblyName |-> managed_profiler_name, version |-> <<1, 0>>,
                           types |-> {}, methods |-> <<>>]]
      [] m = 3 -> [app_domain_id |-> 1,
                   md |-> [assemblyName |-> loader_name, version |-> <<1, 0>>,
                           types |-> {}, methods |-> <<>>]]
      [] m = LibModuleId ->
                  [app_domain_id |-> 1,
                   md |-> [assemblyName |-> "Lib", version |-> <<1, 0>>,
                           types |-> {}, methods |-> <<>>]]
      [] m = WebModuleId ->
                  [app_domain_id |-> 2,
                   md |-> [assemblyName |-> "System.Web", version |-> <<1, 0>>,
                           types |-> {}, methods |-> <<>>]]
      [] OTHER -> [app_domain_id |-> 1,
                   md |-> [assemblyName |-> system_private_corelib_assemblyName,
                           version |-> <<1, 0>>, types |-> {}, methods |-> <<>>]]

\* what LoadIntegrationsFromEnvironment and the filters leave in integration_methods_
LoadedIntegrations ==
    << [assembly |-> "App", min_version |-> <<1, 0>>, max_version |-> <<1, 1>>,
        type_name |-> "Foo", method_name |-> "Bar",
        signature_types |-> <<"Void", "Int32">>] >>

\* the method the runtime recompiles: static, one argument, two return points
RejitFunctionInfo ==
    [isVoid |-> FALSE, isStatic |-> TRUE, valueType |-> FALSE, hasTypeSpec |-> FALSE,
     isGeneric |-> FALSE, args |-> << [byRef |-> FALSE, boxed |-> FALSE, tokOk |-> TRUE] >>]
OriginalIL == [code |-> BodyCode(3, 0), clauses |-> BodyClauses(3)]
NoIL == [code |-> <<>>, clauses |-> <<>>]

\* the callbacks that do part of their work outside the lock, or that hold it while
\* is_attached_ and rejit_handler disagree
Threads == {"Shutdown", "JITInlining", "GetReJITParameters",
            "JITCachedFunctionSearchStarted"}

Idle == [pc |-> "idle", m |-> 0, tok |-> 0, ptr |-> NoPtr, hr |-> "", ans |-> "",
         note |-> {}]

Call(t, pc, m, tok) == [th EXCEPT ![t] = [Idle EXCEPT !.pc = pc, !.m = m, !.tok = tok]]
Ret(t, hr) == [th EXCEPT ![t].pc = "ret", ![t].hr = hr]

LockFree == module_id_to_info_map_lock_ = "free"

\* the runtime can deliver one more callback
\* a callback that has reached its return statement returns before anything else
\* happens: the return touches nothing another thread reads
NoneReturning == \A u \in Threads : th[u].pc # "ret"
At(t, pc) == th[t].pc = pc /\ NoneReturning

CanCall(t) ==
    /\ initialized
    /\ th[t].pc = "idle"
    /\ NoneReturning

\* the HRESULT a callback returned and the null interface pointers it dereferenced; a
\* process that died in the callback has hr "crash"
NoReturn == [hr |-> "", deref |-> {}]
Returned(hr) == [hr |-> hr, deref |-> {}]

\* the assemblies of skip_assemblies that the model loads
SkipAssembly(name) == name = system_private_corelib_assemblyName

ProfInit ==
    /\ initialized = FALSE
    /\ is_attached_ = FALSE
    /\ rejit_handler = "null"
    /\ rh_modules = <<>>
    /\ integration_methods_ = <<>>
    /\ module_id_to_info_map_ = <<>>
    /\ heap = {}
    /\ allocated = [m \in AllModuleIds |-> 0]
    /\ managed_profiler_module_id_ = 0
    /\ managed_profiler_loaded_app_domains = {}
    /\ first_jit_compilation_app_domains = {}
    /\ module_id_to_info_map_lock_ = "free"
    /\ hostLoaded = {}
    /\ il_committed = NoIL
    /\ th = [t \in Threads |-> Idle]
    /\ registeredPairs = {}
    /\ profilerAssemblyDomains = {}
    /\ corlib_module_loaded = FALSE
    /\ lastReturn = NoReturn

ProfIdle == ProfInit

rvars == <<il_committed, corlib_module_loaded, lastReturn>>
dvars == <<managed_profiler_loaded_app_domains, first_jit_compilation_app_domains,
           profilerAssemblyDomains>>
mvars == <<module_id_to_info_map_, heap, allocated, managed_profiler_module_id_,
           rh_modules, registeredPairs>>

\* Initialize: the three ways out of it that leave different state
Initialize ==
    /\ ~initialized
    /\ initialized' = TRUE
    /\ \E outcome \in {"E_FAIL", "E_FAIL after handler", "S_OK"} :
          /\ rejit_handler' = IF outcome = "E_FAIL" THEN "null" ELSE "live"
          /\ integration_methods_' = IF outcome = "E_FAIL" THEN <<>> ELSE LoadedIntegrations
          /\ is_attached_' = (outcome = "S_OK")
    /\ UNCHANGED <<mvars, dvars, rvars, module_id_to_info_map_lock_, hostLoaded, th>>

\* AssemblyLoadFinished, which holds the lock from its first check to its return
AssemblyLoadFinished(m) ==
    /\ initialized
    /\ NoneReturning
    /\ LockFree
    /\ m \in hostLoaded
    /\ \E hostOk \in BOOLEAN :
          IF /\ is_attached_
             /\ hostOk
             /\ HostModule(m).md.assemblyName = managed_profiler_name
          THEN /\ managed_profiler_loaded_app_domains' =
                      managed_profiler_loaded_app_domains \cup {HostModule(m).app_domain_id}
               /\ profilerAssemblyDomains' =
                      profilerAssemblyDomains \cup {HostModule(m).app_domain_id}
          ELSE UNCHANGED <<managed_profiler_loaded_app_domains, profilerAssemblyDomains>>
    /\ lastReturn' = Returned("S_OK")
    /\ UNCHANGED <<initialized, is_attached_, rejit_handler, integration_methods_, mvars,
                   first_jit_compilation_app_domains, il_committed, corlib_module_loaded,
                   module_id_to_info_map_lock_, hostLoaded, th>>

HandlerModule_WithoutMetadata(ptr, methods) == [metadata |-> NoPtr, methods |-> methods]

\* the rejit handler's entry for a module whose scan stored methods
HandlerModule(ptr, methods) == [metadata |-> ptr, methods |-> methods]

Without_Keeps(f, m) == f
Without(f, m) == [k \in DOMAIN f \ {m} |-> f[k]]
With(f, m, v) == [k \in DOMAIN f \cup {m} |-> IF k = m THEN v ELSE f[k]]

\* A callback that checks is_attached_ on entry, takes the lock and checks is_attached_
\* again does, at the moment it has the lock, what it does when both checks read the
\* flag then: it waits for the lock only if the entry check found the profiler attached
Entered == initialized /\ NoneReturning /\ (is_attached_ => LockFree)

\* ModuleLoadFinished
ModuleLoadFinished(m) ==
    LET host == HostModule(m)
        ptr == <<m, allocated[m] + 1>>
        scan == CallTarget_RequestRejitForModule(host.md, integration_methods_)
    IN  /\ Entered
        /\ m \notin hostLoaded
        /\ allocated[m] < MaxLoads
        /\ hostLoaded' = hostLoaded \cup {m}
        /\ \E moduleInfoValid \in BOOLEAN, metaDataOk \in BOOLEAN :
              IF ~is_attached_
              THEN /\ UNCHANGED <<mvars, dvars, corlib_module_loaded>>
                   /\ lastReturn' = Returned("S_OK")
              ELSE IF ~is_attached_ \/ rejit_handler = "null" \/ ~moduleInfoValid
              THEN /\ UNCHANGED <<mvars, dvars, corlib_module_loaded>>
                   /\ lastReturn' = Returned("S_OK")
              ELSE IF /\ ~corlib_module_loaded
                      /\ host.md.assemblyName = system_private_corelib_assemblyName
              THEN \* the result of GetModuleMetaData is not looked at: after a failure
                   \* the calls through assembly_import go through a null pointer
                   /\ corlib_module_loaded' = TRUE
                   /\ UNCHANGED <<mvars, dvars>>
                   /\ IF metaDataOk
                      THEN lastReturn' = Returned("S_OK")
                      ELSE \E hr \in {"crash", "S_OK"} :
                              lastReturn' = [hr |-> hr, deref |-> {"assembly_import"}]
              ELSE IF host.md.assemblyName = loader_name
              THEN /\ first_jit_compilation_app_domains' =
                          first_jit_compilation_app_domains \cup {host.app_domain_id}
                   /\ UNCHANGED <<mvars, managed_profiler_loaded_app_domains,
                                   profilerAssemblyDomains, corlib_module_loaded>>
                   /\ lastReturn' = Returned("S_OK")
              ELSE IF SkipAssembly(host.md.assemblyName) \/ ~metaDataOk
              THEN /\ UNCHANGED <<mvars, dvars, corlib_module_loaded>>
                   /\ lastReturn' = Returned("S_OK")
              ELSE /\ lastReturn' = Returned("S_OK")
                   /\ UNCHANGED corlib_module_loaded
                   /\ module_id_to_info_map_' = With(module_id_to_info_map_, m, ptr)
                   /\ heap' = heap \cup {ptr}
                   /\ allocated' = [allocated EXCEPT ![m] = @ + 1]
                   /\ IF host.md.assemblyName = managed_profiler_name
                      THEN /\ managed_profiler_module_id_' = m
                           /\ UNCHANGED <<rh_modules, registeredPairs>>
                      ELSE /\ rh_modules' =
                                  IF scan.stored = <<>> THEN rh_modules
                                  ELSE With(rh_modules, m, HandlerModule(ptr, scan.methods))
                           /\ registeredPairs' =
                                  registeredPairs \cup {<<m, tok>> : tok \in DOMAIN scan.methods}
                           /\ UNCHANGED managed_profiler_module_id_
                   /\ UNCHANGED dvars
        /\ UNCHANGED <<initialized, is_attached_, rejit_handler, integration_methods_,
                       il_committed, module_id_to_info_map_lock_, th>>

\* ModuleUnloadStarted, also for a module that is not loaded (any more)
ModuleUnloadStarted(m) ==
    /\ Entered
    /\ hostLoaded' = hostLoaded \ {m}
    /\ profilerAssemblyDomains' =
           IF HostModule(m).md.assemblyName = managed_profiler_name
           THEN profilerAssemblyDomains \ {HostModule(m).app_domain_id}
           ELSE profilerAssemblyDomains
    /\ IF ~is_attached_
       THEN UNCHANGED <<managed_profiler_loaded_app_domains, module_id_to_info_map_,
                        rh_modules, heap, registeredPairs>>
       ELSE IF ~is_attached_ \/ m \notin DOMAIN module_id_to_info_map_
       THEN UNCHANGED <<managed_profiler_loaded_app_domains, module_id_to_info_map_,
                        rh_modules, heap, registeredPairs>>
       ELSE /\ managed_profiler_loaded_app_domains' =
                   managed_profiler_loaded_app_domains \ {HostModule(m).app_domain_id}
            /\ module_id_to_info_map_' = Without(module_id_to_info_map_, m)
            /\ rh_modules' = IF rejit_handler # "null" THEN Without(rh_modules, m)
                             ELSE rh_modules
            /\ heap' = heap \ {module_id_to_info_map_[m]}
            /\ registeredPairs' = {p \in registeredPairs : p[1] # m}
    /\ lastReturn' = Returned("S_OK")
    /\ UNCHANGED <<initialized, is_attached_, rejit_handler, integration_methods_,
                   allocated, managed_profiler_module_id_,
                   first_jit_compilation_app_domains, il_committed, corlib_module_loaded,
                   module_id_to_info_map_lock_, th>>

\* Shutdown: takes the lock, shuts the rejit handler down and deletes it
Shutdown ==
    /\ CanCall("Shutdown")
    /\ LockFree
    /\ module_id_to_info_map_lock_' = "Shutdown"
    /\ rejit_handler' = "null"
    /\ rh_modules' = <<>>
    /\ th' = Call("Shutdown", "store", 0, 0)
    /\ UNCHANGED <<initialized, is_attached_, integration_methods_, module_id_to_info_map_,
                   heap, allocated, managed_profiler_module_id_, registeredPairs, dvars,
                   rvars, hostLoaded>>

\* Shutdown: is_attached_.store(false), return
Shutdown_Store ==
    /\ At("Shutdown", "store")
    /\ is_attached_' = FALSE
    /\ module_id_to_info_map_lock_' = "free"
    /\ th' = Ret("Shutdown", "S_OK")
    /\ UNCHANGED <<initialized, rejit_handler, integration_methods_, mvars, dvars, rvars,
                   hostLoaded>>

ProfilerDetachSucceeded_Toggles ==
    /\ Entered
    /\ is_attached_' = ~is_attached_
    /\ UNCHANGED <<initialized, rejit_handler, integration_methods_, mvars, dvars, rvars,
                   module_id_to_info_map_lock_, hostLoaded, th>>

\* ProfilerDetachSucceeded
ProfilerDetachSucceeded ==
    /\ Entered
    /\ is_attached_' = IF ~is_attached_ THEN is_attached_
                       ELSE IF ~is_attached_ THEN is_attached_
                       ELSE FALSE
    /\ UNCHANGED <<initialized, rejit_handler, integration_methods_, mvars, dvars, rvars,
                   module_id_to_info_map_lock_, hostLoaded, th>>

\* AppDomainShutdownFinished
AppDomainShutdownFinished(appDomainId) ==
    /\ Entered
    /\ first_jit_compilation_app_domains' =
           IF ~is_attached_ THEN first_jit_compilation_app_domains
           ELSE IF ~is_attached_ THEN first_jit_compilation_app_domains
           ELSE first_jit_compilation_app_domains \ {appDomainId}
    /\ profilerAssemblyDomains' = profilerAssemblyDomains \ {appDomainId}
    /\ lastReturn' = Returned("S_OK")
    /\ UNCHANGED <<initialized, is_attached_, rejit_handler, integration_methods_, mvars,
                   managed_profiler_loaded_app_domains, il_committed, corlib_module_loaded,
                   module_id_to_info_map_lock_, hostLoaded, th>>

\* the rejit handler's TryGetModule and ContainsMethod
ContainsMethod(m, tok) == m \in DOMAIN rh_modules /\ tok \in DOMAIN rh_modules[m].methods

\* JITInlining: the check on entry; a return from it leaves *pfShouldInline unset.
\* JITInlining and JITCachedFunctionSearchStarted write nothing the other reads, so
\* they are not run against each other.
JITInlining(m, tok) ==
    /\ CanCall("JITInlining")
    /\ th["JITCachedFunctionSearchStarted"].pc = "idle"
    /\ th' = IF ~is_attached_ \/ rejit_handler = "null"
             THEN [th EXCEPT !["JITInlining"] =
                      [Idle EXCEPT !.pc = "ret", !.m = m, !.tok = tok, !.hr = "S_OK",
                                   !.ans = "unset",
                                   !.note = IF is_attached_ THEN {"attached"} ELSE {}]]
             ELSE Call("JITInlining", "query", m, tok)
    /\ UNCHANGED <<initialized, is_attached_, rejit_handler, integration_methods_, mvars,
                   dvars, rvars, module_id_to_info_map_lock_, hostLoaded>>

\* the value JITInlining writes to *pfShouldInline through a live rejit handler
ShouldInline(resolved, m, tok) ==
    IF ~resolved THEN "true"
    ELSE IF ContainsMethod(m, tok) THEN "false" ELSE "true"

\* JITInlining: GetFunctionInfo and the question to the rejit handler, without the lock.
\* The call through a rejit_handler that Shutdown has deleted meanwhile is undefined:
\* it answers either way or the process dies in it.
JITInlining_Query ==
    LET t == "JITInlining"
        facts == (IF is_attached_ THEN {"attached"} ELSE {})
        failed == {"GetFunctionInfo failed"}
    IN  /\ At(t, "query")
        /\ \E resolved \in BOOLEAN :
              IF resolved /\ rejit_handler = "null"
              THEN \E ans \in {"true", "false", "crash"} :
                         th' = [th EXCEPT ![t].pc = "ret", ![t].hr = "S_OK", ![t].ans = ans,
                                          ![t].note = facts \cup {"deleted rejit_handler"}]
              ELSE th' = [th EXCEPT ![t].pc = "ret", ![t].hr = "S_OK",
                                    ![t].ans = ShouldInline(resolved, th[t].m, th[t].tok),
                                    ![t].note = facts \cup
                                                (IF resolved THEN {} ELSE failed)]
        /\ UNCHANGED <<initialized, is_attached_, rejit_handler, integration_methods_, mvars,
                       dvars, rvars, module_id_to_info_map_lock_, hostLoaded>>

\* JITCachedFunctionSearchStarted up to the lock_guard
JITCachedFunctionSearchStarted(m, tok) ==
    /\ CanCall("JITCachedFunctionSearchStarted")
    /\ th["JITInlining"].pc = "idle"
    /\ th' = IF ~is_attached_
             THEN [th EXCEPT !["JITCachedFunctionSearchStarted"] =
                      [Idle EXCEPT !.pc = "ret", !.m = m, !.tok = tok, !.hr = "S_OK",
                                   !.ans = "unset"]]
             ELSE Call("JITCachedFunctionSearchStarted", "lock", m, tok)
    /\ UNCHANGED <<initialized, is_attached_, rejit_handler, integration_methods_, mvars,
                   dvars, rvars, module_id_to_info_map_lock_, hostLoaded>>

UseCachedFunction_WithoutRecordRejects(m) ==
    IF m \in DOMAIN module_id_to_info_map_
       /\ HostModule(m).app_domain_id \in first_jit_compilation_app_domains
    THEN "true" ELSE "false"

\* the value JITCachedFunctionSearchStarted writes to *pbUseCachedFunction
UseCachedFunction(m) ==
    IF m \notin DOMAIN module_id_to_info_map_ THEN "true"
    ELSE IF HostModule(m).app_domain_id \in first_jit_compilation_app_domains
         THEN "true" ELSE "false"

\* JITCachedFunctionSearchStarted under the lock: is_attached_ is not read again
JITCachedFunctionSearchStarted_Locked ==
    LET t == "JITCachedFunctionSearchStarted"
    IN  /\ At(t, "lock")
        /\ LockFree
        /\ \E resolved \in BOOLEAN :
              th' = [th EXCEPT ![t].pc = "ret", ![t].hr = "S_OK",
                               ![t].ans = IF resolved THEN UseCachedFunction(th[t].m)
                                          ELSE "unset",
                               ![t].note = IF is_attached_ THEN {"attached"} ELSE {}]
        /\ UNCHANGED <<initialized, is_attached_, rejit_handler, integration_methods_, mvars,
                       dvars, rvars, module_id_to_info_map_lock_, hostLoaded>>

\* the (module, method) pairs the runtime asks rejit parameters for: the registered
\* method, a method of the same module that is not registered, and a method of a
\* module the profiler never stores
RejitPairs == {<<1, 1>>, <<1, 2>>, <<3, 1>>}

RetWith(t, hr, facts) == [th EXCEPT ![t].pc = "ret", ![t].hr = hr, ![t].note = @ \cup facts]

\* GetReJITParameters: the check of is_attached_ on entry
GetReJITParameters(m, tok) ==
    LET t == "GetReJITParameters"
        facts == (IF is_attached_ THEN {"attached"} ELSE {}) \cup
                 (IF m \in DOMAIN module_id_to_info_map_ THEN {"record"} ELSE {})
    IN  /\ CanCall(t)
        /\ th' = [th EXCEPT ![t] = [Idle EXCEPT !.pc = IF is_attached_ THEN "lookup" ELSE "ret",
                                                !.hr = IF is_attached_ THEN "" ELSE "S_OK",
                                                !.m = m, !.tok = tok, !.note = facts]]
        /\ UNCHANGED <<initialized, is_attached_, rejit_handler, integration_methods_, mvars,
                       dvars, rvars, module_id_to_info_map_lock_, hostLoaded>>

\* the block of GetReJITParameters under the lock: find the module's record or
\* return S_FALSE.  is_attached_ is not read again.
LookupModuleMetadata_NoReturn(map, m) ==
    [hr |-> "", module_metadata |-> IF m \in DOMAIN map THEN map[m] ELSE NoPtr]

LookupModuleMetadata(map, m) ==
    IF m \in DOMAIN map THEN [hr |-> "", module_metadata |-> map[m]]
    ELSE [hr |-> "S_FALSE", module_metadata |-> NoPtr]

GetReJITParameters_Lookup ==
    LET t == "GetReJITParameters"
        r == LookupModuleMetadata(module_id_to_info_map_, th[t].m)
        facts == (IF th[t].m \in DOMAIN module_id_to_info_map_ THEN {"found"} ELSE {}) \cup
                 (IF is_attached_ THEN {"attached at lock"} ELSE {})
    IN  /\ At(t, "lookup")
        /\ LockFree
        /\ th' = IF r.hr = "S_FALSE" THEN RetWith(t, "S_FALSE", facts)
                 ELSE [th EXCEPT ![t].pc = "notify", ![t].ptr = r.module_metadata,
                                 ![t].note = @ \cup facts]
        /\ UNCHANGED <<initialized, is_attached_, rejit_handler, integration_methods_, mvars,
                       dvars, rvars, module_id_to_info_map_lock_, hostLoaded>>

\* GetReJITParameters after the lock's scope: rejit_handler->NotifyReJITParameters, which
\* finds the method's rewrite state, records the module's metadata and enters
\* CallTarget_RewriterCallback up to its check of managed_profiler_module_id_.
\* Through a rejit_handler that Shutdown has deleted the call is undefined: the process
\* dies in it or the handler finds nothing.
GetReJITParameters_Notify ==
    LET t == "GetReJITParameters"
        m == th[t].m
        acted == IF "attached at lock" \in th[t].note THEN {} ELSE {"acted detached"}
    IN  /\ At(t, "notify")
        /\ IF rejit_handler = "null"
           THEN /\ \E hr \in {"crash", "S_FALSE"} :
                      th' = RetWith(t, hr, {"deleted rejit_handler"})
                /\ UNCHANGED rh_modules
           ELSE IF ContainsMethod(m, th[t].tok)
                THEN /\ rh_modules' = [rh_modules EXCEPT ![m].metadata = th[t].ptr]
                     /\ th' = IF managed_profiler_module_id_ = 0
                              THEN RetWith(t, "S_FALSE", acted \cup {"dispatched", "rewriter",
                                                                  "no profiler module id"})
                              ELSE [th EXCEPT ![t].pc = "callback",
                                              ![t].note = @ \cup acted \cup
                                                          {"dispatched", "rewriter"}]
                ELSE /\ th' = RetWith(t, "S_FALSE", acted \cup {"dispatched"})
                     /\ UNCHANGED rh_modules
        /\ UNCHANGED <<initialized, is_attached_, rejit_handler, integration_methods_,
                       module_id_to_info_map_, heap, allocated, managed_profiler_module_id_,
                       registeredPairs, dvars, rvars, module_id_to_info_map_lock_, hostLoaded>>

\* CallTarget_RewriterCallback under the lock: the managed profiler's record, the
\* wrapper type and one of the wrapper methods.  is_attached_ is not read.
CallTarget_RewriterCallback_Locked ==
    LET t == "GetReJITParameters"
    IN  /\ At(t, "callback")
        /\ LockFree
        /\ \E wrapperTypeFound \in BOOLEAN, found_wrapper_method \in BOOLEAN :
              IF /\ managed_profiler_module_id_ \in DOMAIN module_id_to_info_map_
                 /\ wrapperTypeFound
                 /\ found_wrapper_method
              THEN th' = [th EXCEPT ![t].pc = "use",
                                    ![t].note = @ \cup (IF is_attached_ THEN {}
                                                        ELSE {"rewrites detached"})]
              ELSE th' = RetWith(t, "S_FALSE",
                                 IF managed_profiler_module_id_
                                       \in DOMAIN module_id_to_info_map_
                                 THEN {} ELSE {"no profiler module record"})
        /\ UNCHANGED <<initialized, is_attached_, rejit_handler, integration_methods_, mvars,
                       dvars, rvars, module_id_to_info_map_lock_, hostLoaded>>

\* the ModuleMetadata the rewrite works on is the one the rejit handler's module holds;
\* it can be used while it is on the heap
MetadataInUse(t) == th[t].ptr
MetadataIsLive(t) == MetadataInUse(t) \in heap
ReadOf(t) == IF MetadataIsLive(t) THEN {} ELSE {"deleted ModuleMetadata"}

ProfilerAssemblyIsLoaded(domain_neutral, app_domains, app_domain_id) ==
    domain_neutral \/ app_domain_id \in app_domains

\* (the runtime is not the desktop one: managed_profiler_loaded_domain_neutral stays false)
ProfilerAssemblyIsLoadedIntoAppDomain(app_domain_id) ==
    ProfilerAssemblyIsLoaded(FALSE, managed_profiler_loaded_app_domains, app_domain_id)

\* CallTarget_RewriterCallback after the lock's scope, from the read of the module's
\* metadata to ILRewriter.Import.  Reading a deleted ModuleMetadata is undefined: the
\* process dies or the read sees what the record held.
CallTarget_RewriterCallback_Use ==
    LET t == "GetReJITParameters"
    IN  /\ At(t, "use")
        /\ \/ /\ ~MetadataIsLive(t)
              /\ th' = RetWith(t, "crash", ReadOf(t))
           \/ \E importOk \in BOOLEAN :
                 th' = IF ~ProfilerAssemblyIsLoadedIntoAppDomain(
                                 HostModule(th[t].m).app_domain_id)
                       THEN RetWith(t, "S_FALSE",
                                    ReadOf(t) \cup {"profiler assembly not loaded"})
                       ELSE IF ~importOk
                       THEN RetWith(t, "S_FALSE", ReadOf(t))
                       ELSE [th EXCEPT ![t].pc = "rewrite", ![t].note = @ \cup ReadOf(t)]
        /\ UNCHANGED <<initialized, is_attached_, rejit_handler, integration_methods_, mvars,
                       dvars, rvars, module_id_to_info_map_lock_, hostLoaded>>

ILRewriter_Import_Committed(original, committed) ==
    IF committed.code = <<>> THEN original ELSE committed

\* ILRewriter.Import reads the body the module's metadata holds for the method, not
\* the body an earlier rejit exported
ILRewriter_Import(original, committed) == original

\* CallTarget_RewriterCallback from the imported body to ILRewriter.Export, with the
\* tokens of the module's metadata
CallTarget_RewriterCallback_Rewrite ==
    LET t == "GetReJITParameters"
        body == ILRewriter_Import(OriginalIL, il_committed)
    IN  /\ At(t, "rewrite")
        /\ \/ /\ ~MetadataIsLive(t)
              /\ th' = RetWith(t, "crash", ReadOf(t))
              /\ UNCHANGED rvars
           \/ \E writeBeginOk \in BOOLEAN, exportOk \in BOOLEAN :
                 LET env == [importOk |-> TRUE, writeBeginOk |-> writeBeginOk,
                             exportOk |-> exportOk]
                     r == CallTarget_Rewrite(RejitFunctionInfo, env, body.code, body.clauses)
                 IN  IF r.hr = "S_OK"
                     THEN /\ il_committed' = [code |-> r.code, clauses |-> r.clauses]
                          /\ UNCHANGED <<corlib_module_loaded, lastReturn>>
                          /\ th' = RetWith(t, "S_OK", ReadOf(t) \cup {"exported"} \cup
                                                      (IF il_committed = NoIL THEN {}
                                                       ELSE {"exported again"}))
                     ELSE /\ th' = RetWith(t, "S_FALSE", ReadOf(t))
                          /\ UNCHANGED rvars
        /\ UNCHANGED <<initialized, is_attached_, rejit_handler, integration_methods_, mvars,
                       dvars, module_id_to_info_map_lock_, hostLoaded>>

\* the callback has returned to the runtime
Return(t) ==
    /\ th[t].pc = "ret"
    /\ th' = [th EXCEPT ![t] = Idle]
    /\ UNCHANGED <<initialized, is_attached_, rejit_handler, integration_methods_, mvars,
                   dvars, rvars, module_id_to_info_map_lock_, hostLoaded>>

(***************************************************************************)
(* SpecRewrite: one call of CallTarget_RewriterCallback, for every method  *)
(* shape of the bounded sets and every answer of the host.  The call       *)
(* advances through its checks in source order.  w_rewriter is the state   *)
(* of the ILRewriter's in-memory instruction list, w_il the body the       *)
(* runtime holds for the method: only ILRewriter.Export replaces it.       *)
(***************************************************************************)
expected_wrapper_methods == {"OnMethodBegin", "OnMethodEnd", "OnAsyncMethodEnd"}

\* the method names a wrapper type defines: none, one name, or the three expected ones
WrapperMethodSets ==
    {{}, expected_wrapper_methods} \cup
    {{name} : name \in expected_wrapper_methods \cup {"OnMethodCompleted"}}

FoundWrapperMethod_All(defined) == expected_wrapper_methods \subseteq defined

\* the loop over expected_wrapper_methods: EnumMethodsWithName finds one of them
FoundWrapperMethod(defined) ==
    \E expected_wrapper_method \in expected_wrapper_methods :
        expected_wrapper_method \in defined

\* the block under the lock: "" if it falls through, else why it returns S_FALSE
WrapperCheck(inMap, typeFound, defined) ==
    IF ~inMap THEN "no instrumentation module metadata"
    ELSE IF ~typeFound THEN "no wrapper type"
    ELSE IF ~FoundWrapperMethod(defined) THEN "no wrapper method"
    ELSE ""

\* GetWrapperMethodRef: true, or false at the first step that fails
WrapperRefSteps ==
    {"cached", "ok", "module info invalid", "GetModuleFromScope failed",
     "EmitAssemblyRef failed", "StoreWrapperMethodRef failed"}
GetWrapperMethodRef(step) == step \in {"cached", "ok"}

\* the argument lists of the methods: short ones and ones on either side of
\* FASTPATH_COUNT, with at most one by-reference argument, at any position, and with a
\* first argument that is plain, boxed, or boxed without an obtainable type token
RewriteArgCounts == {0, 1, FASTPATH_COUNT - 1, FASTPATH_COUNT}
RewriteArgLists ==
    {[i \in 1..n |-> [byRef |-> i = p,
                      boxed |-> i = 1 /\ first # "plain",
                      tokOk |-> ~(i = 1 /\ first = "no token")]] :
        n \in RewriteArgCounts, p \in 0..FASTPATH_COUNT,
        first \in {"plain", "boxed", "no token"}}

NoFunctionInfo ==
    [isVoid |-> FALSE, isStatic |-> TRUE, valueType |-> FALSE, hasTypeSpec |-> FALSE,
     isGeneric |-> FALSE, args |-> <<>>]
NoWrapper == [looked |-> FALSE, typeFound |-> FALSE, defined |-> {}]

BodyIL(b, isStatic) ==
    [code |-> BodyCode(b, IF isStatic THEN 0 ELSE 1), clauses |-> BodyClauses(b)]

\* FunctionInfo* caller = methodHandler->GetFunctionInfo(), and the body the runtime
\* holds for the method
RewriteInit ==
    /\ w_pc = "entry"
    /\ w_body \in 1..NumBodies
    /\ \E isStatic \in BOOLEAN, valueType \in BOOLEAN, hasTypeSpec \in BOOLEAN,
          isGeneric \in BOOLEAN, args \in RewriteArgLists :
          w_fi = [isVoid |-> BodyIsVoid(w_body), isStatic |-> isStatic,
                  valueType |-> valueType, hasTypeSpec |-> hasTypeSpec,
                  isGeneric |-> isGeneric, args |-> args]
    /\ w_wrapper = NoWrapper
    /\ w_refs = ""
    /\ w_seen = {}
    /\ w_hr = ""
    /\ w_rewriter = "none"
    /\ w_il = BodyIL(w_body, w_fi.isStatic)

RewriteIdle ==
    /\ w_pc = "idle"
    /\ w_body = 0
    /\ w_fi = NoFunctionInfo
    /\ w_wrapper = NoWrapper
    /\ w_refs = ""
    /\ w_seen = {}
    /\ w_hr = ""
    /\ w_rewriter = "none"
    /\ w_il = NoIL

\* the callback returns hr; why says which return statement it is
CallbackReturns(hr, why) ==
    /\ w_pc' = "done"
    /\ w_hr' = hr
    /\ w_seen' = w_seen \cup why

CallbackGoesOn(pc) ==
    /\ w_pc' = pc
    /\ UNCHANGED <<w_hr, w_seen>>

\* "Ensure that the replacement is actually available and found."
Callback_Entry ==
    /\ w_pc = "entry"
    /\ \E managedProfilerModuleId \in {0, 2} :
          IF managedProfilerModuleId = 0
          THEN CallbackReturns("S_FALSE", {"no instrumentation module id"})
          ELSE CallbackGoesOn("locked")
    /\ UNCHANGED <<w_body, w_fi, w_wrapper, w_refs, w_rewriter, w_il>>

\* the block under the lock: the instrumentation module's record, the wrapper type
\* and the wrapper methods
Callback_FindWrapper ==
    /\ w_pc = "locked"
    /\ \E inMap \in BOOLEAN, typeFound \in BOOLEAN, defined \in WrapperMethodSets :
          LET why == WrapperCheck(inMap, typeFound, defined) IN
          /\ w_wrapper' = IF inMap
                          THEN [looked |-> TRUE, typeFound |-> typeFound,
                                defined |-> defined]
                          ELSE NoWrapper
          /\ IF why # "" THEN CallbackReturns("S_FALSE", {why})
             ELSE CallbackGoesOn("refs")
    /\ UNCHANGED <<w_body, w_fi, w_refs, w_rewriter, w_il>>

\* "Get all references to the wrapper type": GetWrapperMethodRef is called and what
\* it returns is not looked at
Callback_GetWrapperMethodRef ==
    /\ w_pc = "refs"
    /\ \E step \in WrapperRefSteps :
          /\ w_refs' = step
          /\ w_seen' = IF GetWrapperMethodRef(step) THEN w_seen
                       ELSE w_seen \cup {"GetWrapperMethodRef failed"}
    /\ w_wrapper' = NoWrapper
    /\ w_pc' = "loaded"
    /\ UNCHANGED <<w_body, w_fi, w_hr, w_rewriter, w_il>>

\* "First we check if the managed profiler has not been loaded yet"
Callback_CheckLoaded ==
    /\ w_pc = "loaded"
    /\ \E domainNeutral \in BOOLEAN, appDomains \in {{}, {1}} :
          IF ~ProfilerAssemblyIsLoaded(domainNeutral, appDomains, 1)
          THEN CallbackReturns("S_FALSE", {"not loaded into the app domain"})
          ELSE CallbackGoesOn("import")
    /\ w_refs' = ""
    /\ UNCHANGED <<w_body, w_fi, w_wrapper, w_rewriter, w_il>>

\* ILRewriter.Import
Callback_Import ==
    /\ w_pc = "import"
    /\ \E importOk \in BOOLEAN :
          IF ~importOk
          THEN CallbackReturns("S_FALSE", {"Import failed"}) /\ UNCHANGED w_rewriter
          ELSE CallbackGoesOn("emit") /\ w_rewriter' = "imported"
    /\ UNCHANGED <<w_body, w_fi, w_wrapper, w_refs, w_il>>

\* from ModifyLocalSigAndInitialize to the return after ILRewriter.Export
Callback_Rewrite ==
    /\ w_pc = "emit"
    /\ \E writeBeginOk \in BOOLEAN, exportOk \in BOOLEAN :
          LET env == [importOk |-> TRUE, writeBeginOk |-> writeBeginOk,
                      exportOk |-> exportOk]
              r == CallTarget_Rewrite(w_fi, env, w_il.code, w_il.clauses)
              reached == ~(InstanceAbort(w_fi) \/ ArgumentsAbort(w_fi) \/ ~writeBeginOk)
          IN  /\ CallbackReturns(r.hr,
                     IF reached /\ exportOk THEN {"exported"}
                     ELSE IF reached THEN {"Export failed"}
                     ELSE IF ~(InstanceAbort(w_fi) \/ ArgumentsAbort(w_fi))
                          THEN {"WriteBeginMethod failed"}
                     ELSE {"unsupported method"})
              /\ w_rewriter' = IF reached /\ exportOk THEN "exported" ELSE "modified"
              /\ w_il' = IF r.hr = "S_OK" THEN [code |-> r.code, clauses |-> r.clauses]
                         ELSE w_il
    /\ UNCHANGED <<w_body, w_fi, w_wrapper, w_refs>>

(***************************************************************************)
(* SpecTokens: GetWrapperMethodRef over the wrapper references cached in   *)
(* the ModuleMetadata of each module.  A wrapper method key names a        *)
(* wrapper type and a method of it; a ModuleMetadata is [members, types,   *)
(* assemblyRefs, memberRefs]: the member-reference and type-reference      *)
(* tokens cached by key, and the numbers of assembly references and member *)
(* references emitted into the module's metadata.  Token 0 is the nil      *)
(* token.                                                                  *)
(***************************************************************************)
MaxCalls == 3       \* calls of GetWrapperMethodRef

TokenModules == {1, 2}
WrapperMethodKeys == {<<"A", "M1">>, <<"A", "M2">>, <<"B", "M1">>}
get_type_cache_key(key) == key[1]

EmptyFunction == [k \in {} |-> 0]
NewModuleMetadata ==
    [members |-> EmptyFunction, types |-> EmptyFunction, assemblyRefs |-> 0, memberRefs |-> 0]

\* ModuleMetadata::TryGetWrapperMemberRef and TryGetWrapperParentTypeRef
TryGetWrapperMemberRef(md, key) == IF key \in DOMAIN md.members THEN md.members[key] ELSE 0
TryGetWrapperParentTypeRef(md, typeKey) == IF typeKey \in DOMAIN md.types THEN md.types[typeKey] ELSE 0

\* MetadataBuilder::EmitAssemblyRef
EmitAssemblyRef(md) == [md EXCEPT !.assemblyRefs = @ + 1]

\* MetadataBuilder::StoreWrapperMethodRef: the type reference is looked up or defined,
\* the member reference is defined, both are cached under their keys
StoreWrapperMethodRef(md, key, next) ==
    LET typeKey == get_type_cache_key(key)
        cachedType == typeKey \in DOMAIN md.types
        typeRef == IF cachedType THEN md.types[typeKey] ELSE next
        memberRef == IF cachedType THEN next ELSE next + 1
    IN  [md |-> [md EXCEPT !.types = With(@, typeKey, typeRef),
                           !.members = With(@, key, memberRef),
                           !.memberRefs = @ + 1],
         next |-> memberRef + 1]

GetWrapperMethodRef_Uncached(md, key, host, next) ==
    LET stored == StoreWrapperMethodRef(EmitAssemblyRef(md), key, next) IN
    IF ~host.moduleInfoValid \/ ~host.scopeOk \/ ~host.emitOk
    THEN [ok |-> FALSE, md |-> md, next |-> next, method |-> 0, type |-> 0]
    ELSE IF ~host.storeOk
    THEN [ok |-> FALSE, md |-> EmitAssemblyRef(md), next |-> next, method |-> 0, type |-> 0]
    ELSE [ok |-> TRUE, md |-> stored.md, next |-> stored.next,
          method |-> TryGetWrapperMemberRef(stored.md, key),
          type |-> TryGetWrapperParentTypeRef(stored.md, get_type_cache_key(key))]

GetWrapperMethodRef_NoCache(md, key, host, next) ==
    GetWrapperMethodRef_Uncached(md, key, host, next)

\* GetWrapperMethodRef: [ok, md, next, method, type], method and type being what it
\* leaves in wrapper_method_ref and wrapper_type_ref
GetWrapperMethodRef_Tokens(md, key, host, next) ==
    IF TryGetWrapperMemberRef(md, key) # 0
    THEN [ok |-> TRUE, md |-> md, next |-> next,
          method |-> TryGetWrapperMemberRef(md, key),
          type |-> TryGetWrapperParentTypeRef(md, get_type_cache_key(key))]
    ELSE GetWrapperMethodRef_Uncached(md, key, host, next)

NoCall == [m |-> 0, key |-> <<"", "">>, hit |-> FALSE, ok |-> FALSE, method |-> 0, type |-> 0,
           assemblyRefs |-> 0, memberRefs |-> 0]

TokensInit ==
    /\ t_md = [m \in TokenModules |-> NewModuleMetadata]
    /\ t_next = 1
    /\ t_calls = 0
    /\ t_call = NoCall
    /\ t_resolved = [m \in TokenModules |-> EmptyFunction]

TokensIdle ==
    /\ t_md = EmptyFunction
    /\ t_next = 0
    /\ t_calls = 0
    /\ t_call = NoCall
    /\ t_resolved = EmptyFunction

\* one call of GetWrapperMethodRef for module m's record and a wrapper method key
WrapperMethodRefCall(m, key) ==
    /\ t_calls < MaxCalls
    /\ t_calls' = t_calls + 1
    /\ \E moduleInfoValid \in BOOLEAN, scopeOk \in BOOLEAN, emitOk \in BOOLEAN,
          storeOk \in BOOLEAN :
          LET host == [moduleInfoValid |-> moduleInfoValid, scopeOk |-> scopeOk,
                       emitOk |-> emitOk, storeOk |-> storeOk]
              r == GetWrapperMethodRef_Tokens(t_md[m], key, host, t_next)
          IN  /\ t_md' = [t_md EXCEPT ![m] = r.md]
              /\ t_next' = r.next
              /\ t_call' = [m |-> m, key |-> key, hit |-> key \in DOMAIN t_resolved[m],
                            ok |-> r.ok, method |-> r.method, type |-> r.type,
                            assemblyRefs |-> r.md.assemblyRefs - t_md[m].assemblyRefs,
                            memberRefs |-> r.md.memberRefs - t_md[m].memberRefs]
              /\ t_resolved' =
                    IF r.ok /\ key \notin DOMAIN t_resolved[m]
                    THEN [t_resolved EXCEPT ![m] =
                             With(@, key, [method |-> r.method, type |-> r.type])]
                    ELSE t_resolved

\* ModuleUnloadStarted deletes the module's ModuleMetadata; the next ModuleLoadFinished
\* of the module makes a new one
ModuleMetadataDeleted(m) ==
    /\ t_md[m] # NewModuleMetadata
    /\ t_md' = [t_md EXCEPT ![m] = NewModuleMetadata]
    /\ t_resolved' = [t_resolved EXCEPT ![m] = EmptyFunction]
    /\ t_call' = NoCall
    /\ UNCHANGED <<t_next, t_calls>>

(***************************************************************************)
(* SpecLock: what each entry point does with module_id_to_info_map_lock_.  *)
(* A function is the sequence of its lock_guard scopes and of the calls it  *)
(* makes, in source order: <<"acquire">> is the construction of a           *)
(* lock_guard, <<"release">> the end of its scope, <<"call", f>> a call of  *)
(* a function of the profiler, <<"handler", f>> a call into the rejit       *)
(* handler.  A return inside a scope ends the scope.  A frame is           *)
(* [fn, pos, holds].                                                       *)
(***************************************************************************)
GetReJITParameters_NotifyInsideScope ==
    << <<"acquire">>, <<"handler", "NotifyReJITParameters">>, <<"release">> >>

\* GetReJITParameters: the block with the lock_guard, then NotifyReJITParameters
GetReJITParameters_Scopes ==
    << <<"acquire">>, <<"release">>, <<"handler", "NotifyReJITParameters">> >>

LockSteps(fn) ==
    CASE fn = "AssemblyLoadFinished" -> << <<"acquire">>, <<"release">> >>
      [] fn = "ModuleLoadFinished" ->
            << <<"acquire">>, <<"handler", "AddNGenModule">>,
               <<"call", "RedirectAssemblyReferences">>,
               <<"call", "CallTarget_RequestRejitForModule">>,
               <<"call", "RewritingPInvokeMaps">>, <<"release">> >>
      [] fn = "CallTarget_RequestRejitForModule" ->
            << <<"handler", "GetOrAddModule">>, <<"handler", "RequestRejit">>,
               <<"handler", "RequestRejitForNGenInliners">> >>
      [] fn = "ModuleUnloadStarted" ->
            << <<"acquire">>, <<"handler", "RemoveModule">>, <<"release">> >>
      [] fn = "Shutdown" -> << <<"acquire">>, <<"handler", "Shutdown">>, <<"release">> >>
      [] fn = "ProfilerDetachSucceeded" -> << <<"acquire">>, <<"release">> >>
      [] fn = "AppDomainShutdownFinished" -> << <<"acquire">>, <<"release">> >>
      [] fn = "JITCompilationStarted" -> << <<"call", "JITCompilationStartedOnNetFramework">> >>
      [] fn = "JITCompilationStartedOnNetFramework" -> << <<"acquire">>, <<"release">> >>
      [] fn = "JITInlining" -> << <<"handler", "TryGetModule">> >>
      [] fn = "ReJITCompilationStarted" -> << <<"handler", "NotifyReJITCompilationStarted">> >>
      [] fn = "GetReJITParameters" -> GetReJITParameters_Scopes
      [] fn = "CallTarget_RewriterCallback" ->
            << <<"acquire">>, <<"release">>, <<"call", "GetWrapperMethodRef">> >>
      [] fn = "JITCachedFunctionSearchStarted" -> << <<"acquire">>, <<"release">> >>
      [] OTHER -> <<>>  \* RedirectAssemblyReferences, RewritingPInvokeMaps, GetWrapperMethodRef

\* the function of the profiler a call into the rejit handler calls back, if any: the
\* handler was given CallTarget_RewriterCallback as its rewrite callback
HandlerCallsBack(h) == IF h = "NotifyReJITParameters" THEN "CallTarget_RewriterCallback" ELSE ""

LockCallbacks ==
    {"AssemblyLoadFinished", "ModuleLoadFinished", "ModuleUnloadStarted", "Shutdown",
     "ProfilerDetachSucceeded", "AppDomainShutdownFinished", "JITCompilationStarted",
     "JITInlining", "ReJITCompilationStarted", "GetReJITParameters",
     "JITCachedFunctionSearchStarted"}
LockThreads == {"T1", "T2"}

Frame(fn) == [fn |-> fn, pos |-> 1, holds |-> FALSE]
NoFrames == [stack |-> <<>>, selfBlocked |-> FALSE]

LockInit ==
    /\ l_th = [t \in LockThreads |-> NoFrames]
    /\ l_holder = "free"

LockIdle ==
    /\ l_th = EmptyFunction
    /\ l_holder = "free"

TopFrame(t) == l_th[t].stack[Len(l_th[t].stack)]
SetTop(t, frame) == [l_th EXCEPT ![t].stack[Len(l_th[t].stack)] = frame]
PushFrame(t, caller, fn) ==
    [l_th EXCEPT ![t].stack = Append(SubSeq(@, 1, Len(@) - 1), caller) \o << Frame(fn) >>]
CanStep(t) == l_th[t].stack # <<>> /\ ~l_th[t].selfBlocked

\* the runtime calls an entry point on a thread that runs none
LockEnter(t, fn) ==
    /\ l_th[t].stack = <<>>
    /\ l_th' = [l_th EXCEPT ![t].stack = << Frame(fn) >>]
    /\ UNCHANGED l_holder

\* std::lock_guard<std::mutex> guard(module_id_to_info_map_lock_): the thread waits
\* while another thread holds the mutex; locking a mutex the thread itself holds never
\* returns
LockAcquire(t) ==
    LET f == TopFrame(t) IN
    /\ CanStep(t)
    /\ f.pos <= Len(LockSteps(f.fn))
    /\ LockSteps(f.fn)[f.pos][1] = "acquire"
    /\ l_holder \in {"free", t}
    /\ IF l_holder = t
       THEN /\ l_th' = [l_th EXCEPT ![t].selfBlocked = TRUE]
            /\ UNCHANGED l_holder
       ELSE /\ l_th' = SetTop(t, [f EXCEPT !.pos = @ + 1, !.holds = TRUE])
            /\ l_holder' = t

\* the end of the lock_guard's scope
LockRelease(t) ==
    LET f == TopFrame(t) IN
    /\ CanStep(t)
    /\ f.pos <= Len(LockSteps(f.fn))
    /\ LockSteps(f.fn)[f.pos][1] = "release"
    /\ l_th' = SetTop(t, [f EXCEPT !.pos = @ + 1, !.holds = FALSE])
    /\ l_holder' = "free"

\* a call of a function of the profiler or into the rejit handler; the branch that
\* holds the call may not be taken, and the handler may have nothing to call back
LockCall(t) ==
    LET f == TopFrame(t)
        step == LockSteps(f.fn)[f.pos]
        after == [f EXCEPT !.pos = @ + 1]
        callee == IF step[1] = "call" THEN step[2] ELSE HandlerCallsBack(step[2])
    IN  /\ CanStep(t)
        /\ f.pos <= Len(LockSteps(f.fn))
        /\ LockSteps(f.fn)[f.pos][1] \in {"call", "handler"}
        /\ \E taken \in BOOLEAN :
              l_th' = IF taken /\ callee # "" THEN PushFrame(t, after, callee)
                      ELSE SetTop(t, after)
        /\ UNCHANGED l_holder

\* return: at the end of the function or earlier; a lock_guard in scope is destroyed
LockReturn(t) ==
    LET f == TopFrame(t) IN
    /\ CanStep(t)
    /\ l_th' = [l_th EXCEPT ![t].stack = SubSeq(@, 1, Len(@) - 1)]
    /\ l_holder' = IF f.holds THEN "free" ELSE l_holder

(***************************************************************************)
(* SpecRedirect: RedirectAssemblyReferences.  A version is <<major, minor>> *)
(* (the source's four parts, compared in order, cut to two).                *)
(***************************************************************************)
MaxVersionPart == 1
MaxRefs == 2
MaxModuleLoads == 2
assembly_refs_sz == 1     \* rows per EnumAssemblyRefs call (16 in the source)

AssemblyVersions == (0..MaxVersionPart) \X (0..MaxVersionPart)
RedirectNames == {"A"}           \* the names in assembly_version_redirect_map_
RefNames == RedirectNames \cup {"X"}
AssemblyRefs == [name : RedirectNames, version : AssemblyVersions] \cup {[name |-> "X", version |-> <<0, 0>>]}

RefRows(n) == UNION {[1..k -> AssemblyRefs] : k \in 0..n}

\* AssemblyVersionRedirection::CompareToAssemblyVersion: positive when the redirection's
\* version is the higher one
CompareVersions(a, b) ==
    IF a[1] # b[1] THEN (IF a[1] > b[1] THEN 1 ELSE -1)
    ELSE IF a[2] # b[2] THEN (IF a[2] > b[2] THEN 1 ELSE -1)
    ELSE 0
CompareToAssemblyVersion(redirect, version) == CompareVersions(redirect.version, version)

NoAnswers == [props |-> FALSE, set |-> "not called"]
HostAnswers(propsOk, called, setOk) ==
    [props |-> propsOk,
     set |-> IF ~called THEN "not called" ELSE IF setOk THEN "S_OK" ELSE "E_FAIL"]

RedirectInit ==
    /\ assembly_version_redirect_map_ \in
           [RedirectNames -> [version : AssemblyVersions, ulRedirectionCount : {0}]]
    /\ ar_refs = <<>>
    /\ ar_pos = 0
    /\ ar_batch = <<>>
    /\ ar_i = 1
    /\ ar_pc = "idle"
    /\ ar_hr = "S_FALSE"
    /\ ar_loads = 0
    /\ ar_host = NoAnswers
    /\ ar_ended = [n \in RedirectNames |-> {}]

RedirectIdle ==
    /\ assembly_version_redirect_map_ = EmptyFunction
    /\ ar_refs = <<>>
    /\ ar_pos = 0
    /\ ar_batch = <<>>
    /\ ar_i = 1
    /\ ar_pc = "idle"
    /\ ar_hr = "S_FALSE"
    /\ ar_loads = 0
    /\ ar_host = NoAnswers
    /\ ar_ended = EmptyFunction

\* ModuleLoadFinished calls RedirectAssemblyReferences for a module with these rows;
\* assembly_refs and assembly_refs_count start uninitialized (rows that
\* GetAssemblyRefProps rejects: the same as none)
RedirectAssemblyReferences(refs) ==
    /\ ar_pc = "idle"
    /\ ar_loads < MaxModuleLoads
    /\ ar_loads' = ar_loads + 1
    /\ ar_refs' = refs
    /\ ar_pos' = 0
    /\ ar_batch' = <<>>
    /\ ar_i' = 1
    /\ ar_hr' = "S_FALSE"
    /\ ar_pc' = "enum"
    /\ ar_host' = NoAnswers
    /\ UNCHANGED <<assembly_version_redirect_map_, ar_ended>>

SeqFromTo(a, b) == [k \in 1..(b - a + 1) |-> a + k - 1]

\* hr = EnumAssemblyRefs(...); if (hr == S_FALSE) break; the host hands out the next
\* rows, says S_FALSE after the last, or fails; on a failure it may leave assembly_refs
\* and assembly_refs_count as they were or set the count to 0
EnumAssemblyRefs ==
    /\ ar_pc = "enum"
    /\ \E hr \in {"S_OK", "S_FALSE", "E_FAIL"} :
          /\ ar_hr' = hr
          /\ CASE hr = "S_OK" ->
                    LET last == IF ar_pos + assembly_refs_sz < Len(ar_refs)
                                THEN ar_pos + assembly_refs_sz ELSE Len(ar_refs)
                    IN  /\ ar_pos < Len(ar_refs)
                        /\ ar_batch' = SeqFromTo(ar_pos + 1, last)
                        /\ ar_pos' = last
                        /\ ar_pc' = "for"
                        /\ UNCHANGED ar_refs
               [] hr = "S_FALSE" ->
                    /\ ar_pos = Len(ar_refs)
                    /\ ar_pc' = "idle"
                    /\ ar_refs' = <<>>
                    /\ ar_batch' = <<>>
                    /\ ar_pos' = 0
               [] hr = "E_FAIL" ->
                    /\ ar_batch' \in {<<>>, ar_batch}
                    /\ ar_pc' = "for"
                    /\ UNCHANGED <<ar_refs, ar_pos>>
    /\ ar_i' = 1
    /\ ar_host' = NoAnswers
    /\ UNCHANGED <<assembly_version_redirect_map_, ar_loads, ar_ended>>

\* the for loop is over: back to the while (true)
RedirectForEnd ==
    /\ ar_pc = "for"
    /\ ar_i > Len(ar_batch)
    /\ ar_pc' = "enum"
    /\ UNCHANGED <<assembly_version_redirect_map_, ar_refs, ar_pos, ar_batch, ar_i, ar_hr,
                   ar_loads, ar_host, ar_ended>>

RedirectRef_RaisesUsedTarget(propsOk, setOk) ==
    LET row == ar_batch[ar_i]
        ref == ar_refs[row]
        name == ref.name
        redirect == assembly_version_redirect_map_[name]
        version_comparison == CompareToAssemblyVersion(redirect, ref.version)
        used == [redirect EXCEPT !.ulRedirectionCount = @ + 1]
        ends == [ar_ended EXCEPT ![name] = @ \cup {redirect.version}]
        called == /\ propsOk
                  /\ name \in DOMAIN assembly_version_redirect_map_
                  /\ version_comparison > 0
    IN  /\ ar_pc = "for"
        /\ ar_i <= Len(ar_batch)
        /\ ar_i' = ar_i + 1
        /\ (called \/ setOk)   \* setOk matters only when SetAssemblyRefProps is called
        /\ ar_host' = HostAnswers(propsOk, called, setOk)
        /\ IF ~propsOk \/ name \notin DOMAIN assembly_version_redirect_map_
           THEN UNCHANGED <<assembly_version_redirect_map_, ar_refs, ar_ended>>
           ELSE CASE version_comparison > 0 ->
                       IF setOk
                       THEN /\ ar_refs' = [ar_refs EXCEPT ![row].version = redirect.version]
                            /\ assembly_version_redirect_map_' =
                                   [assembly_version_redirect_map_ EXCEPT ![name] = used]
                            /\ ar_ended' = ends
                       ELSE UNCHANGED <<assembly_version_redirect_map_, ar_refs, ar_ended>>
                  [] version_comparison = 0 ->
                       /\ ar_ended' = ends
                       /\ UNCHANGED <<assembly_version_redirect_map_, ar_refs>>
                  [] OTHER ->
                       IF redirect.ulRedirectionCount >= 0
                       THEN /\ assembly_version_redirect_map_' =
                                   [assembly_version_redirect_map_ EXCEPT
                                       ![name] = [version |-> ref.version, ulRedirectionCount |-> redirect.ulRedirectionCount + 1]]
                            /\ ar_ended' = [ar_ended EXCEPT ![name] = @ \cup {ref.version}]
                            /\ UNCHANGED ar_refs
                       ELSE UNCHANGED <<assembly_version_redirect_map_, ar_refs, ar_ended>>
        /\ UNCHANGED <<ar_pos, ar_batch, ar_pc, ar_hr, ar_loads>>

\* one iteration of the for loop: GetAssemblyRefProps, the look-up in the map, the
\* comparison and its three branches
RedirectRef(propsOk, setOk) ==
    LET row == ar_batch[ar_i]
        ref == ar_refs[row]
        name == ref.name
        redirect == assembly_version_redirect_map_[name]
        version_comparison == CompareToAssemblyVersion(redirect, ref.version)
        used == [redirect EXCEPT !.ulRedirectionCount = @ + 1]
        ends == [ar_ended EXCEPT ![name] = @ \cup {redirect.version}]
        called == /\ propsOk
                  /\ name \in DOMAIN assembly_version_redirect_map_
                  /\ version_comparison > 0
    IN  /\ ar_pc = "for"
        /\ ar_i <= Len(ar_batch)
        /\ ar_i' = ar_i + 1
        /\ (called \/ setOk)   \* setOk matters only when SetAssemblyRefProps is called
        /\ ar_host' = HostAnswers(propsOk, called, setOk)
        /\ IF ~propsOk \/ name \notin DOMAIN assembly_version_redirect_map_
           THEN UNCHANGED <<assembly_version_redirect_map_, ar_refs, ar_ended>>
           ELSE CASE version_comparison > 0 ->
                       IF setOk
                       THEN /\ ar_refs' = [ar_refs EXCEPT ![row].version = redirect.version]
                            /\ assembly_version_redirect_map_' =
                                   [assembly_version_redirect_map_ EXCEPT ![name] = used]
                            /\ ar_ended' = ends
                       ELSE UNCHANGED <<assembly_version_redirect_map_, ar_refs, ar_ended>>
                  [] version_comparison = 0 ->
                       /\ ar_ended' = ends
                       /\ UNCHANGED <<assembly_version_redirect_map_, ar_refs>>
                  [] OTHER ->
                       IF redirect.ulRedirectionCount = 0
                       THEN /\ assembly_version_redirect_map_' =
                                   [assembly_version_redirect_map_ EXCEPT
                                       ![name] = [version |-> ref.version, ulRedirectionCount |-> redirect.ulRedirectionCount + 1]]
                            /\ ar_ended' = [ar_ended EXCEPT ![name] = @ \cup {ref.version}]
                            /\ UNCHANGED ar_refs
                       ELSE UNCHANGED <<assembly_version_redirect_map_, ar_refs, ar_ended>>
        /\ UNCHANGED <<ar_pos, ar_batch, ar_pc, ar_hr, ar_loads>>

(***************************************************************************)
(* SpecInject: JITCompilationStarted on .NET Framework.  The callback holds *)
(* module_id_to_info_map_lock_ from its first statement to its return, so   *)
(* it is one step among the other callbacks that take the lock.             *)
(***************************************************************************)
MaxInjections == 2
AppDomainIds == {1, 2}
InjectModuleIds == {1, 3, WebModuleId}

NoInjection == [domain |-> 0, loader |-> "", flags |-> ""]

InjectIdle ==
    /\ is_desktop_iis = FALSE
    /\ loaderInjections = EmptyFunction
    /\ lastInjection = NoInjection

InjectInit ==
    /\ is_desktop_iis \in BOOLEAN
    /\ loaderInjections = [d \in AppDomainIds |-> 0]
    /\ lastInjection = NoInjection

\* GetFunctionInfo(module_metadata->metadata_import, function_token): the method that
\* is being compiled
CallerOf(m, tok) ==
    IF m = WebModuleId /\ tok = 1
    THEN [type |-> "System.Web.Compilation.BuildManager", name |-> "InvokePreStartInitMethods"]
    ELSE [type |-> "Foo", name |-> "Bar"]

valid_loader_callsite(assemblyName, caller) ==
    IF is_desktop_iis
    THEN /\ assemblyName = "System.Web"
         /\ caller.type = "System.Web.Compilation.BuildManager"
         /\ caller.name = "InvokePreStartInitMethods"
    ELSE assemblyName \notin {"System", "System.Net.Http"}

JITCompilationStarted_InjectsInMarkedDomain(m, tok, is_safe_to_block, host) ==
    LET app_domain_id == HostModule(m).app_domain_id
        inject == /\ is_attached_ /\ is_safe_to_block
                  /\ host.functionInfo
                  /\ m \in DOMAIN module_id_to_info_map_
                  /\ host.callerValid
                  /\ valid_loader_callsite(HostModule(m).md.assemblyName, CallerOf(m, tok))
    IN  /\ Entered
        /\ loaderInjections[app_domain_id] < MaxInjections
        /\ IF inject
           THEN /\ first_jit_compilation_app_domains' =
                       first_jit_compilation_app_domains \cup {app_domain_id}
                /\ loaderInjections' = [loaderInjections EXCEPT ![app_domain_id] = @ + 1]
                /\ lastInjection' =
                       [domain |-> app_domain_id,
                        loader |-> IF host.loaderOk THEN "S_OK" ELSE "failed",
                        flags |-> IF ~host.loaderOk \/ ~is_desktop_iis THEN "not called"
                                  ELSE IF host.flagsOk THEN "S_OK" ELSE "failed"]
           ELSE UNCHANGED <<first_jit_compilation_app_domains, loaderInjections, lastInjection>>
        /\ lastReturn' = Returned("S_OK")
        /\ UNCHANGED <<initialized, is_attached_, rejit_handler, integration_methods_, mvars,
                       managed_profiler_loaded_app_domains, profilerAssemblyDomains,
                       il_committed, corlib_module_loaded, module_id_to_info_map_lock_,
                       hostLoaded, th, is_desktop_iis>>

\* JITCompilationStarted and JITCompilationStartedOnNetFramework; host: the results of
\* ICorProfilerInfo::GetFunctionInfo, of reading the method's metadata, of
\* RunAutoInstrumentationLoader and of AddIISPreStartInitFlags
JITCompilationStarted(m, tok, is_safe_to_block, host) ==
    LET app_domain_id == HostModule(m).app_domain_id
        has_loader_injected_in_appdomain == app_domain_id \in first_jit_compilation_app_domains
        inject == /\ is_attached_ /\ is_safe_to_block
                  /\ host.functionInfo
                  /\ m \in DOMAIN module_id_to_info_map_
                  /\ ~has_loader_injected_in_appdomain
                  /\ host.callerValid
                  /\ valid_loader_callsite(HostModule(m).md.assemblyName, CallerOf(m, tok))
    IN  /\ Entered
        /\ loaderInjections[app_domain_id] < MaxInjections
        /\ IF inject
           THEN \* the domain is marked, then RunAutoInstrumentationLoader and
                \* AddIISPreStartInitFlags run; whatever they answer, the mark stays
                /\ first_jit_compilation_app_domains' =
                       first_jit_compilation_app_domains \cup {app_domain_id}
                /\ loaderInjections' = [loaderInjections EXCEPT ![app_domain_id] = @ + 1]
                /\ lastInjection' =
                       [domain |-> app_domain_id,
                        loader |-> IF host.loaderOk THEN "S_OK" ELSE "failed",
                        flags |-> IF ~host.loaderOk \/ ~is_desktop_iis THEN "not called"
                                  ELSE IF host.flagsOk THEN "S_OK" ELSE "failed"]
           ELSE UNCHANGED <<first_jit_compilation_app_domains, loaderInjections, lastInjection>>
        /\ lastReturn' = Returned("S_OK")
        /\ UNCHANGED <<initialized, is_attached_, rejit_handler, integration_methods_, mvars,
                       managed_profiler_loaded_app_domains, profilerAssemblyDomains,
                       il_committed, corlib_module_loaded, module_id_to_info_map_lock_,
                       hostLoaded, th, is_desktop_iis>>

JitHostAnswers == [functionInfo : BOOLEAN, callerValid : BOOLEAN, loaderOk : BOOLEAN,
                   flagsOk : BOOLEAN]

\* the runtime has finished shutting the domain down: the history starts again
AppDomainShutdownEvent(d) ==
    /\ AppDomainShutdownFinished(d)
    /\ loaderInjections' = [loaderInjections EXCEPT ![d] = 0]
    /\ UNCHANGED <<is_desktop_iis, lastInjection>>

\* the other specifications' variables stay as they are
ProfFrame == UNCHANGED <<xvars, svars, wvars, tvars, lvars, avars, jvars>>

Next ==
    \/ Initialize /\ ProfFrame
    \/ (\E m \in ModuleIds : AssemblyLoadFinished(m)) /\ ProfFrame
    \/ (\E m \in ModuleIds : ModuleLoadFinished(m)) /\ ProfFrame
    \/ (\E m \in ModuleIds : ModuleUnloadStarted(m)) /\ ProfFrame
    \/ Shutdown /\ ProfFrame
    \/ Shutdown_Store /\ ProfFrame
    \/ ProfilerDetachSucceeded /\ ProfFrame
    \/ AppDomainShutdownFinished(1) /\ ProfFrame
    \/ (\E p \in {<<1, 1>>, <<1, 2>>} : JITInlining(p[1], p[2])) /\ ProfFrame
    \/ JITInlining_Query /\ ProfFrame
    \/ (\E m \in {1, 3} : JITCachedFunctionSearchStarted(m, 1)) /\ ProfFrame
    \/ JITCachedFunctionSearchStarted_Locked /\ ProfFrame
    \/ (\E p \in RejitPairs : GetReJITParameters(p[1], p[2])) /\ ProfFrame
    \/ GetReJITParameters_Lookup /\ ProfFrame
    \/ GetReJITParameters_Notify /\ ProfFrame
    \/ CallTarget_RewriterCallback_Locked /\ ProfFrame
    \/ CallTarget_RewriterCallback_Use /\ ProfFrame
    \/ CallTarget_RewriterCallback_Rewrite /\ ProfFrame
    \/ (\E t \in Threads : Return(t)) /\ ProfFrame

Init == ProfInit /\ ExecIdle /\ MatchIdle /\ RewriteIdle /\ TokensIdle /\ LockIdle /\ RedirectIdle /\ InjectIdle

Spec == Init /\ [][Next]_vars

ExecFrame == UNCHANGED <<svars, wvars, tvars, lvars, avars, pvars, jvars>>

ExecNext ==
    \/ RunOriginal /\ ExecFrame
    \/ RewriteBody /\ ExecFrame
    \/ RunRewritten /\ ExecFrame

InitExec == ExecInit /\ MatchIdle /\ RewriteIdle /\ TokensIdle /\ ProfIdle /\ LockIdle /\ RedirectIdle /\ InjectIdle

SpecExec == InitExec /\ [][ExecNext]_vars

MatchNext == RequestRejitForModule /\ UNCHANGED <<xvars, wvars, tvars, lvars, avars, jvars, pvars>>

InitMatch == MatchInit /\ ExecIdle /\ RewriteIdle /\ TokensIdle /\ ProfIdle /\ LockIdle /\ RedirectIdle /\ InjectIdle

SpecMatch == InitMatch /\ [][MatchNext]_vars

RewriteFrame == UNCHANGED <<xvars, svars, tvars, lvars, avars, pvars, jvars>>

RewriteNext ==
    \/ Callback_Entry /\ RewriteFrame
    \/ Callback_FindWrapper /\ RewriteFrame
    \/ Callback_GetWrapperMethodRef /\ RewriteFrame
    \/ Callback_CheckLoaded /\ RewriteFrame
    \/ Callback_Import /\ RewriteFrame
    \/ Callback_Rewrite /\ RewriteFrame

InitRewrite == RewriteInit /\ ExecIdle /\ MatchIdle /\ TokensIdle /\ ProfIdle /\ LockIdle /\ RedirectIdle /\ InjectIdle

SpecRewrite == InitRewrite /\ [][RewriteNext]_vars

\* SpecHook: the application module, the instrumentation module and a second module of
\* the same app domain load and unload while the runtime asks for the rejit parameters
\* of the registered method; no thread detaches the profiler
HookModuleIds == {1, 2, LibModuleId}

HookNext ==
    \/ Initialize /\ ProfFrame
    \/ (\E m \in HookModuleIds : ModuleLoadFinished(m)) /\ ProfFrame
    \/ (\E m \in HookModuleIds : AssemblyLoadFinished(m)) /\ ProfFrame
    \/ (\E m \in HookModuleIds : ModuleUnloadStarted(m)) /\ ProfFrame
    \/ GetReJITParameters(1, 1) /\ ProfFrame
    \/ GetReJITParameters_Lookup /\ ProfFrame
    \/ GetReJITParameters_Notify /\ ProfFrame
    \/ CallTarget_RewriterCallback_Locked /\ ProfFrame
    \/ CallTarget_RewriterCallback_Use /\ ProfFrame
    \/ CallTarget_RewriterCallback_Rewrite /\ ProfFrame
    \/ Return("GetReJITParameters") /\ ProfFrame

InitHook == ProfInit /\ ExecIdle /\ MatchIdle /\ RewriteIdle /\ TokensIdle /\ LockIdle /\ RedirectIdle /\ InjectIdle

\* SpecLoad: the callbacks that hold the lock from entry to return and the two JIT
\* queries, over the application module, the instrumentation module, the loader and the
\* core library; a process that died in a callback makes no further step
LoadModuleIds == {1, 2, 3, CorlibModuleId}
Alive == lastReturn.hr # "crash"

LoadNext ==
    \/ Initialize /\ ProfFrame
    \/ (Alive /\ \E m \in LoadModuleIds : ModuleLoadFinished(m)) /\ ProfFrame
    \/ (Alive /\ \E m \in LoadModuleIds : AssemblyLoadFinished(m)) /\ ProfFrame
    \/ (Alive /\ \E m \in LoadModuleIds : ModuleUnloadStarted(m)) /\ ProfFrame
    \/ (Alive /\ AppDomainShutdownFinished(1)) /\ ProfFrame
    \/ (Alive /\ JITInlining(1, 1)) /\ ProfFrame
    \/ (Alive /\ JITInlining_Query) /\ ProfFrame
    \/ (Alive /\ JITCachedFunctionSearchStarted(1, 1)) /\ ProfFrame
    \/ (Alive /\ JITCachedFunctionSearchStarted_Locked) /\ ProfFrame
    \/ (Alive /\ \E t \in {"JITInlining", "JITCachedFunctionSearchStarted"} : Return(t))
          /\ ProfFrame

InitLoad == ProfInit /\ ExecIdle /\ MatchIdle /\ RewriteIdle /\ TokensIdle /\ LockIdle /\ RedirectIdle /\ InjectIdle

SpecLoad == InitLoad /\ [][LoadNext]_vars

RedirectFrame == UNCHANGED <<xvars, svars, wvars, tvars, lvars, pvars, jvars>>

\* the steps of a running RedirectAssemblyReferences
RedirectRun ==
    \/ EnumAssemblyRefs /\ RedirectFrame
    \/ RedirectForEnd /\ RedirectFrame
    \/ (\E propsOk \in BOOLEAN, setOk \in BOOLEAN : RedirectRef(propsOk, setOk)) /\ RedirectFrame

RedirectNext ==
    \/ (\E refs \in RefRows(MaxRefs) : RedirectAssemblyReferences(refs)) /\ RedirectFrame
    \/ RedirectRun

InitRedirect == RedirectInit /\ ExecIdle /\ MatchIdle /\ RewriteIdle /\ TokensIdle /\ LockIdle /\ ProfIdle /\ InjectIdle

SpecRedirect == InitRedirect /\ [][RedirectNext]_vars

\* the thread that runs RedirectAssemblyReferences keeps running
SpecRedirectFair == InitRedirect /\ [][RedirectNext]_vars /\ WF_vars(RedirectRun)

InjectFrame == UNCHANGED <<xvars, svars, wvars, tvars, lvars, avars>>

InjectNext ==
    \/ Initialize /\ ProfFrame
    \/ (\E m \in InjectModuleIds : ModuleLoadFinished(m)) /\ ProfFrame
    \/ (\E m \in InjectModuleIds : ModuleUnloadStarted(m)) /\ ProfFrame
    \/ (\E d \in AppDomainIds : AppDomainShutdownEvent(d)) /\ InjectFrame
    \/ (\E m \in InjectModuleIds, tok \in {1, 2}, is_safe_to_block \in BOOLEAN,
           host \in JitHostAnswers : JITCompilationStarted(m, tok, is_safe_to_block, host))
          /\ InjectFrame
    \/ ProfilerDetachSucceeded /\ ProfFrame

InitInject == ProfInit /\ ExecIdle /\ MatchIdle /\ RewriteIdle /\ TokensIdle /\ LockIdle /\ RedirectIdle /\ InjectInit

SpecInject == InitInject /\ [][InjectNext]_vars

LockFrame == UNCHANGED <<xvars, svars, wvars, tvars, avars, pvars, jvars>>

LockNext ==
    \/ (\E t \in LockThreads, fn \in LockCallbacks : LockEnter(t, fn)) /\ LockFrame
    \/ (\E t \in LockThreads : LockAcquire(t)) /\ LockFrame
    \/ (\E t \in LockThreads : LockRelease(t)) /\ LockFrame
    \/ (\E t \in LockThreads : LockCall(t)) /\ LockFrame
    \/ (\E t \in LockThreads : LockReturn(t)) /\ LockFrame

InitLock == LockInit /\ ExecIdle /\ MatchIdle /\ RewriteIdle /\ TokensIdle /\ ProfIdle /\ RedirectIdle /\ InjectIdle

SpecLock == InitLock /\ [][LockNext]_vars

TokensFrame == UNCHANGED <<xvars, svars, wvars, lvars, avars, pvars, jvars>>

TokensNext ==
    \/ (\E m \in TokenModules, key \in WrapperMethodKeys : WrapperMethodRefCall(m, key))
          /\ TokensFrame
    \/ (\E m \in TokenModules : ModuleMetadataDeleted(m)) /\ TokensFrame

InitTokens == TokensInit /\ ExecIdle /\ MatchIdle /\ RewriteIdle /\ ProfIdle /\ LockIdle /\ RedirectIdle /\ InjectIdle

SpecTokens == InitTokens /\ [][TokensNext]_vars

SpecHook == InitHook /\ [][HookNext]_vars

(***************************************************************************)
(* Properties of SpecExec                                                  *)
(***************************************************************************)
RewrittenRunEnded == x_phase = "rewritten" /\ x_newOut.kind # "none"
HookEvents == [k \in 1..Len(x_events) |-> x_events[k].e]

\* C3: in a run of the rewritten method the begin-hook is called exactly once and
\* before the original body, the end-hook exactly once and after the body has
\* returned or raised, whatever the number of return points
C3_HooksOnceAroundBody ==
    x_phase = "rewritten" =>
        /\ HookEvents = SubSeq(<<"begin", "body", "end">>, 1, Len(HookEvents))
        /\ x_newOut.kind # "none" => Len(HookEvents) = 3

\* a body with two return points has run rewritten, to its second return
C3_TwoReturnPointsRun ==
    /\ RewrittenRunEnded
    /\ x_body = 3
    /\ x_arg = "a1"
    /\ Len(x_events) = 3

\* C4: when a hook raises, and the end-hook does not replace the return value, the
\* rewritten method still ends as the original body ends: with its return value or
\* with its exception
C4_HookExceptionKeepsOutcome ==
    (/\ RewrittenRunEnded
     /\ x_beginHook = "throw" \/ x_endHook = "throw"
     /\ x_endHook # "subst")
    => x_newOut = x_origOut

\* C5: for an end-hook that hands the return value back unchanged, the rewritten
\* method ends with the return value or the exception of the original method
C5_SameOutcomeAsOriginal ==
    (RewrittenRunEnded /\ x_endHook # "subst") => x_newOut = x_origOut

(***************************************************************************)
(* Properties of SpecMatch                                                 *)
(***************************************************************************)
ScanDone == s_pc = "done"
Stored(k, token) == \E i \in DOMAIN s_result.stored : s_result.stored[i] = <<k, token>>
VersionAtMost(a, b) == a[1] < b[1] \/ (a[1] = b[1] /\ a[2] <= b[2])

\* C7: an overload of the target method is registered for an integration exactly when
\* it has as many arguments as the integration's signature and each argument type name
\* equals the signature's entry, case-sensitively, or the entry is "_"; every overload
\* that passes is registered, once
C7_RegisteredIffSignatureMatches ==
    ScanDone =>
        /\ \A k \in DOMAIN s_catalog, j \in DOMAIN s_module.methods :
              LET integration == s_catalog[k]
                  method == s_module.methods[j]
                  sig == integration.signature_types
              IN  (/\ k \in s_result.typeLookups
                   /\ integration.type_name \in s_module.types
                   /\ method.type = integration.type_name
                   /\ method.name = integration.method_name
                   /\ method.valid
                   /\ method.parses)
                  => (Stored(k, method.token) <=>
                        /\ Len(method.args) = Len(sig) - 1
                        /\ \A i \in 1..Len(method.args) :
                              method.args[i] = sig[i + 1] \/ sig[i + 1] = "_")
        /\ \A i, j \in DOMAIN s_result.stored :
              s_result.stored[i] = s_result.stored[j] => i = j

\* the first integration ("_", "Int32") registers the overload (int32, Int32), and the
\* overload (Int32) is registered by the second integration ("_")
C7_WildcardAndExactRegistered ==
    /\ ScanDone
    /\ s_catalog[1].signature_types = <<"Void", "_", "Int32">>
    /\ s_module.methods[1].args = <<"int32", "Int32">>
    /\ Stored(1, 1)
    /\ Len(s_catalog) = 2
    /\ Stored(2, 2)
    /\ ~Stored(2, 1)

\* C8: the scan looks an integration's target type up exactly when the integration's
\* assembly name equals the module's and min_version <= version <= max_version; an
\* integration that is not looked up, or whose type the module lacks, registers nothing
C8_ConsideredIffAssemblyAndVersion ==
    ScanDone =>
        \A k \in DOMAIN s_catalog :
            LET integration == s_catalog[k] IN
            /\ k \in s_result.typeLookups <=>
                  /\ integration.assembly = s_module.assemblyName
                  /\ VersionAtMost(integration.min_version, s_module.version)
                  /\ VersionAtMost(s_module.version, integration.max_version)
            /\ (k \notin s_result.typeLookups \/ integration.type_name \notin s_module.types)
               => \A token \in 1..3 : ~Stored(k, token)

\* the version is both bounds of the first integration, whose type the module lacks
C8_VersionOnBothBoundsTypeAbsent ==
    /\ ScanDone
    /\ s_catalog[1].min_version = s_module.version
    /\ s_catalog[1].max_version = s_module.version
    /\ 1 \in s_result.typeLookups
    /\ s_catalog[1].type_name = "Missing"
    /\ \A token \in 1..3 : ~Stored(1, token)

(***************************************************************************)
(* Properties of Spec                                                      *)
(***************************************************************************)
RejitCall == th["GetReJITParameters"]
InliningCall == th["JITInlining"]
CountOp(code, op) == Cardinality({k \in 1..Len(code) : code[k].op = op})

\* C1: the rewrite of a method of module m never reads m's ModuleMetadata after
\* ModuleUnloadStarted has deleted it
C1_MetadataNotReadAfterDelete ==
    \A t \in Threads : "deleted ModuleMetadata" \notin th[t].note

\* C2: an entry point that finds is_attached_ false right after it has acquired
\* module_id_to_info_map_lock_ makes no call into the rejit handler or the rewriter
C2_NoActionWhenDetachedAtLock ==
    \A t \in Threads : th[t].note \cap {"acted detached", "rewrites detached"} = {}

\* C6: while the profiler is attached, JITInlining answers false for a callee whose
\* (module, token) pair is registered for rewriting and true for a callee that is not
\* (for a callee the runtime resolves, and leaving aside calls through a deleted
\* rejit handler)
C6_InliningAnswer ==
    (/\ InliningCall.pc = "ret"
     /\ "attached" \in InliningCall.note
     /\ InliningCall.note \cap {"GetFunctionInfo failed", "deleted rejit_handler"} = {})
    => IF <<InliningCall.m, InliningCall.tok>> \in registeredPairs
       THEN InliningCall.ans = "false"
       ELSE InliningCall.ans \in {"true", "unset"}

C10_NoRecordReturnsSFalse ==
    (/\ RejitCall.pc = "ret"
     /\ "record" \notin RejitCall.note
     /\ "found" \notin RejitCall.note)
    => /\ RejitCall.hr = "S_FALSE"
       /\ RejitCall.note \cap {"dispatched", "rewriter"} = {}

\* C10 amended: GetReJITParameters entered while attached, for a module that has no
\* record in the module map when it is looked up, returns S_FALSE and dispatches
\* nothing; the rewriter is invoked only if the record was found by the lookup
C10_AttachedNoRecordReturnsSFalse ==
    /\ (/\ RejitCall.pc = "ret"
        /\ "attached" \in RejitCall.note
        /\ "found" \notin RejitCall.note)
       => /\ RejitCall.hr = "S_FALSE"
          /\ RejitCall.note \cap {"dispatched", "rewriter"} = {}
    /\ "rewriter" \in RejitCall.note => "found" \in RejitCall.note

\* the module was unloaded between the entry of GetReJITParameters and its lookup
C10_UnloadedBeforeLookup ==
    /\ RejitCall.pc = "ret"
    /\ RejitCall.hr = "S_FALSE"
    /\ {"attached", "record"} \subseteq RejitCall.note
    /\ "found" \notin RejitCall.note


(***************************************************************************)
(* Properties of SpecRewrite                                               *)
(***************************************************************************)
CallbackDone == w_pc = "done"
OriginalBody == BodyIL(w_body, w_fi.isStatic)
NothingCommitted == w_il = OriginalBody /\ w_rewriter # "exported" /\ "exported" \notin w_seen
ByRefPositions == {i \in 1..Len(w_fi.args) : w_fi.args[i].byRef}

ReachedInstanceLoad == CallbackDone /\ w_rewriter \in {"modified", "exported"}
NoOtherFailure ==
    /\ ByRefPositions = {}
    /\ \A i \in 1..Len(w_fi.args) : w_fi.args[i].boxed => w_fi.args[i].tokOk
    /\ w_seen \cap {"WriteBeginMethod failed", "Export failed"} = {}

\* C12: the rewrite is given up (S_FALSE, nothing exported) for a static method of a
\* value type and for an instance method of a generic value type without a type-spec;
\* an instance method of a value type that has a type-spec or is not generic is not
\* given up for its receiver: without another failure it is rewritten
C12_ValueTypeReceiverAborts ==
    (ReachedInstanceLoad /\ w_fi.valueType) =>
        IF w_fi.isStatic \/ (w_fi.isGeneric /\ ~w_fi.hasTypeSpec)
        THEN w_hr = "S_FALSE" /\ NothingCommitted
        ELSE NoOtherFailure => (w_hr = "S_OK" /\ w_rewriter = "exported")

\* the rewrite of an instance method of a generic value type without a type-spec,
\* which has nothing else against it, was given up at the load of the instance
C12_GenericValueTypeInstanceAborted ==
    /\ ReachedInstanceLoad
    /\ w_fi.valueType /\ ~w_fi.isStatic /\ w_fi.isGeneric /\ ~w_fi.hasTypeSpec
    /\ NoOtherFailure
    /\ w_seen = {"unsupported method"}
    /\ w_hr = "S_FALSE"

\* C13: when the wrapper type is not found in the instrumentation module, or none of
\* OnMethodBegin, OnMethodEnd, OnAsyncMethodEnd resolves on it, the call returns
\* S_FALSE before any IL is imported or modified; when one of the three resolves the
\* call goes on past this check
C13_WrapperWithoutHooksAborts ==
    w_wrapper.looked =>
        IF /\ w_wrapper.typeFound
           /\ w_wrapper.defined \cap {"OnMethodBegin", "OnMethodEnd", "OnAsyncMethodEnd"} # {}
        THEN w_pc = "refs" /\ w_hr = ""
        ELSE /\ CallbackDone
             /\ w_hr = "S_FALSE"
             /\ w_rewriter = "none"
             /\ NothingCommitted

\* the wrapper type was found, defines a method that is none of the three, and the
\* call returned S_FALSE
C13_WrapperWithOtherMethodOnly ==
    /\ CallbackDone
    /\ w_wrapper.looked
    /\ w_wrapper.typeFound
    /\ w_wrapper.defined = {"OnMethodCompleted"}
    /\ w_seen = {"no wrapper method"}
    /\ w_hr = "S_FALSE"


\* C14: when GetWrapperMethodRef fails (module info invalid, GetModuleFromScope,
\* EmitAssemblyRef or StoreWrapperMethodRef failed) the call returns S_FALSE and
\* exports no body for the method
C14_WrapperRefFailureAbandonsRewrite ==
    (CallbackDone /\ "GetWrapperMethodRef failed" \in w_seen) =>
        (w_hr = "S_FALSE" /\ NothingCommitted)

\* C15: the call returns S_OK or S_FALSE, S_OK only when ILRewriter.Export succeeded,
\* and whenever it returns without a successful Export the body the runtime holds,
\* instructions and exception table, is the original one
C15_OnlyExportChangesTheBody ==
    CallbackDone =>
        /\ w_hr \in {"S_OK", "S_FALSE"}
        /\ w_hr = "S_OK" => (w_rewriter = "exported" /\ "exported" \in w_seen)
        /\ w_hr # "S_OK" => w_il = OriginalBody
        /\ w_rewriter # "exported" => w_il = OriginalBody

\* the rewriter's list was modified up to Export, Export failed, and the call returned
\* S_FALSE
C15_ExportFailed ==
    /\ CallbackDone
    /\ w_rewriter = "modified"
    /\ w_seen = {"Export failed"}
    /\ w_hr = "S_FALSE"
    /\ w_il = OriginalBody


Rewritten == CallbackDone /\ w_hr = "S_OK"
OriginalReturns == {k \in 1..Len(OriginalBody.code) : OriginalBody.code[k].op = "ret"}
AfterEndFinally == Pos(w_il.code, NewId("endFinallyInstr")) + 1

\* C19: after a successful rewrite the only return instruction of the list is its
\* last instruction; every return instruction of the original body is now a leave to
\* the instruction that follows the finally handler; in a non-void method a store
\* into the return-value local stands right before each of these leaves, and the
\* instruction after the finally handler loads that local right before the return
C19_SingleReturnInSharedEpilogue ==
    Rewritten =>
        LET code == w_il.code IN
        /\ {k \in 1..Len(code) : code[k].op = "ret"} = {Len(code)}
        /\ \A k \in OriginalReturns :
              LET p == Pos(code, OrigId(k)) IN
              /\ p > 0
              /\ code[p].op = "leave"
              /\ Pos(code, code[p].tgt) = AfterEndFinally
              /\ code[AfterEndFinally - 1].op = "endfinally"
              /\ ~w_fi.isVoid =>
                    (code[p - 1].op = "stloc" /\ code[p - 1].loc = "returnValue")
        /\ IF w_fi.isVoid THEN AfterEndFinally = Len(code)
           ELSE /\ AfterEndFinally = Len(code) - 1
                /\ code[AfterEndFinally].op = "ldloc"
                /\ code[AfterEndFinally].loc = "returnValue"

\* a non-void method with two return instructions has been rewritten
C19_TwoReturnsRewritten ==
    /\ Rewritten
    /\ ~w_fi.isVoid
    /\ Cardinality(OriginalReturns) = 2
    /\ Cardinality({k \in 1..Len(w_il.code) : w_il.code[k].op = "leave"
                                               /\ w_il.code[k].id[1] = "orig"}) = 2

\* C20: a successful rewrite of a method with n exception-handling clauses installs
\* n + 4 clauses: the n original ones first, in their order and with their boundaries,
\* then the begin-hook guard, the end-hook guard, the outer catch and the finally
C20_OriginalClausesThenFourNew ==
    Rewritten =>
        LET code == w_il.code
            old == OriginalBody.clauses
            n == Len(old)
            new == w_il.clauses
            Holds(c, op) == \E k \in 1..Len(code) : code[k].op = op /\ InTry(code, c, k)
            HandlerStart(c) == code[Pos(code, c.handlerBegin)]
        IN  /\ Len(new) = n + 4
            /\ SubSeq(new, 1, n) = old
            /\ new[n + 1].flags = "catch" /\ Holds(new[n + 1], "call_begin")
                                          /\ ~Holds(new[n + 1], "call_end")
            /\ new[n + 2].flags = "catch" /\ Holds(new[n + 2], "call_end")
                                          /\ ~Holds(new[n + 2], "call_begin")
            /\ new[n + 3].flags = "catch"
            /\ HandlerStart(new[n + 3]).op = "stloc"
            /\ HandlerStart(new[n + 3]).loc = "exception"
            /\ \A k \in 1..Len(code) : code[k].id[1] = "orig" => InTry(code, new[n + 3], k)
            /\ new[n + 4].flags = "finally"
            /\ Pos(code, new[n + 4].handlerBegin) <= Pos(code, NewId("endMethodCallInstr"))
            /\ Pos(code, NewId("endMethodCallInstr")) < Pos(code, new[n + 4].handlerEnd)

\* a method whose body has an exception-handling clause has been rewritten
C20_BodyWithClauseRewritten ==
    /\ Rewritten
    /\ Len(OriginalBody.clauses) = 1
    /\ Len(w_il.clauses) = 5
    /\ w_il.clauses[1] = OriginalBody.clauses[1]


(***************************************************************************)
(* Properties of SpecMatch: the rejit request                              *)
(***************************************************************************)
\* C17: a scan in which a method matched calls RequestRejit exactly once, with the
\* token of every method the scan stored, and then RequestRejitForNGenInliners once;
\* a scan in which no method matched makes neither call
C17_OneRequestPerScan ==
    ScanDone =>
        IF s_result.stored = <<>>
        THEN s_result.requestRejit = <<>> /\ s_result.requestRejitForNGenInliners = 0
        ELSE /\ Len(s_result.requestRejit) = 1
             /\ s_result.requestRejit[1] =
                   [j \in 1..Len(s_result.stored) |-> s_result.stored[j][2]]
             /\ s_result.requestRejitForNGenInliners = 1

\* a scan stored two methods and requested both in its one call
C17_TwoMethodsInOneRequest ==
    /\ ScanDone
    /\ Stored(1, 1)
    /\ Stored(2, 2)
    /\ s_result.requestRejit = << <<1, 2>> >>
    /\ s_result.requestRejitForNGenInliners = 1


(***************************************************************************)
(* Properties of Spec: the module records                                  *)
(***************************************************************************)
MapRecords == {module_id_to_info_map_[m] : m \in DOMAIN module_id_to_info_map_}

\* what ModuleUnloadStarted(m) does to a module with a record, and to one without
UnloadRemovesRecord(m) ==
    IF m \in DOMAIN module_id_to_info_map_
    THEN /\ module_id_to_info_map_' =
               [k \in DOMAIN module_id_to_info_map_ \ {m} |-> module_id_to_info_map_[k]]
         /\ m \notin DOMAIN rh_modules'
         /\ module_id_to_info_map_[m] \in heap
         /\ heap' = heap \ {module_id_to_info_map_[m]}
    ELSE UNCHANGED <<module_id_to_info_map_, heap, rh_modules, registeredPairs,
                     managed_profiler_loaded_app_domains, managed_profiler_module_id_>>

\* C18: a module has a record in the module map from the ModuleLoadFinished that stored
\* it to the next ModuleUnloadStarted for it.  The records in the map are exactly the
\* records not deleted; while attached only loaded modules have a record or rewrite
\* state; a ModuleUnloadStarted(m) while attached erases m's map entry, has the rejit
\* handler drop m and deletes the record, which was not deleted before; for a module
\* without a record it changes nothing
C18_RecordLivesFromLoadToUnload ==
    /\ [](/\ heap = MapRecords
          /\ is_attached_ =>
                /\ DOMAIN module_id_to_info_map_ \subseteq hostLoaded
                /\ DOMAIN rh_modules \subseteq DOMAIN module_id_to_info_map_)
    /\ [][\A m \in ModuleIds :
             (ModuleUnloadStarted(m) /\ is_attached_) => UnloadRemovesRecord(m)]_vars

\* the application module, stored with rewrite state, has been unloaded while attached
C18_UnloadedWhileAttached ==
    /\ is_attached_
    /\ allocated[1] = 1
    /\ 1 \notin hostLoaded
    /\ 1 \notin DOMAIN module_id_to_info_map_
    /\ 1 \notin DOMAIN rh_modules
    /\ <<1, 1>> \notin heap
    /\ registeredPairs = {}


(***************************************************************************)
(* Properties of SpecHook: rewrites deferred until the instrumentation     *)
(* assembly has loaded                                                     *)
(***************************************************************************)
NotReadyReasons ==
    {"no profiler module id", "no profiler module record", "profiler assembly not loaded"}

\* the instrumentation module is recorded and stored, and its assembly has finished
\* loading into the app domain of module m and has not been unloaded from it
HookAssemblyLoadedFor(m) ==
    /\ managed_profiler_module_id_ # 0
    /\ managed_profiler_module_id_ \in DOMAIN module_id_to_info_map_
    /\ HostModule(m).app_domain_id \in profilerAssemblyDomains

\* C16: a CallTarget_RewriterCallback that finds the instrumentation assembly not ready
\* (no instrumentation module id, no record of it in the module map, or the assembly
\* not loaded into the method's app domain) returns S_FALSE and commits nothing, and a
\* callback for the method once the assembly has loaded is not deferred for any of
\* these reasons (for a method whose module stays loaded during the call)
C16_DeferredUntilHookAssemblyLoaded ==
    (/\ RejitCall.pc = "ret"
     /\ "rewriter" \in RejitCall.note
     /\ RejitCall.m \in DOMAIN module_id_to_info_map_
     /\ module_id_to_info_map_[RejitCall.m] = RejitCall.ptr) =>
        /\ RejitCall.note \cap NotReadyReasons # {} =>
              /\ RejitCall.hr = "S_FALSE"
              /\ "exported" \notin RejitCall.note
        /\ HookAssemblyLoadedFor(RejitCall.m) => RejitCall.note \cap NotReadyReasons = {}


(***************************************************************************)
(* Properties of Spec: the cached image of a registered method             *)
(***************************************************************************)
CachedCall == th["JITCachedFunctionSearchStarted"]

\* C21: while attached, JITCachedFunctionSearchStarted for a method that is registered
\* for rewrite and has not been rewritten yet answers that the cached image must not
\* be used (for a function the runtime resolves)
C21_RegisteredMethodBypassesCachedImage ==
    (/\ CachedCall.pc = "ret"
     /\ "attached" \in CachedCall.note
     /\ CachedCall.ans # "unset"
     /\ <<CachedCall.m, CachedCall.tok>> \in registeredPairs
     /\ il_committed = NoIL)
    => CachedCall.ans = "false"


(***************************************************************************)
(* Properties of SpecRewrite: the load of the arguments                    *)
(***************************************************************************)
ArgumentLoadNames ==
    {"CreateArray", "BeginLoadValueIntoArray", "LoadArgument", "Box", "EndLoadValueIntoArray"}
\* the instructions the argument load has inserted, in the order of the list
ArgumentPart(code) == SelectSeq(code, LAMBDA ins : ins.id[1] \in ArgumentLoadNames)
\* those of them that belong to argument i
ElementPart(code, i) ==
    SelectSeq(ArgumentPart(code), LAMBDA ins : ins.id[2] = i)
OpsAndArgs(part) == [k \in 1..Len(part) |-> <<part[k].op, part[k].arg>>]
FirstArgumentSlot == IF w_fi.isStatic THEN 0 ELSE 1
BoxedWithoutToken == {i \in 1..Len(w_fi.args) : w_fi.args[i].boxed /\ ~w_fi.args[i].tokOk}

\* C22: a rewritten method with fewer than FASTPATH_COUNT arguments loads each argument
\* by itself and builds no array; with FASTPATH_COUNT arguments or more it builds one
\* array of as many elements as arguments and stores argument i at index i, boxed with
\* the type token of argument i exactly if the argument is flagged boxed; a boxed
\* argument without an obtainable type token on the array path makes the call return
\* S_FALSE with nothing exported
C22_FastPathBelowThresholdElseArray ==
    /\ Rewritten =>
          LET part == ArgumentPart(w_il.code)
              n == Len(w_fi.args)
          IN  IF n < FASTPATH_COUNT
              THEN OpsAndArgs(part) = [i \in 1..n |-> <<"ldarg", i - 1 + FirstArgumentSlot>>]
              ELSE /\ OpsAndArgs(ElementPart(w_il.code, 0)) = << <<"newarr", n>> >>
                   /\ part[1].op = "newarr"
                   /\ \A k \in 2..(Len(part) - 1) : part[k].id[2] <= part[k + 1].id[2]
                   /\ \A i \in 1..n :
                         OpsAndArgs(ElementPart(w_il.code, i)) =
                            << <<"dup_ldc", i - 1>>, <<"ldarg", i - 1 + FirstArgumentSlot>> >> \o
                            (IF w_fi.args[i].boxed THEN << <<"box", i>> >> ELSE <<>>) \o
                            << <<"stelem_ref", 0>> >>
    /\ (CallbackDone /\ Len(w_fi.args) >= FASTPATH_COUNT /\ BoxedWithoutToken # {})
          => (w_hr = "S_FALSE" /\ NothingCommitted)

\* an instance method with FASTPATH_COUNT arguments, the first one boxed, was rewritten
C22_ArrayPathWithBoxedArgument ==
    /\ Rewritten
    /\ ~w_fi.isStatic
    /\ Len(w_fi.args) = FASTPATH_COUNT
    /\ w_fi.args[1].boxed
    /\ Len(ArgumentPart(w_il.code)) = 3 * FASTPATH_COUNT + 2


(***************************************************************************)
(* Properties of SpecExec: what the end-hook receives and hands back       *)
(***************************************************************************)
EndEvents == {k \in 1..Len(x_events) : x_events[k].e = "end"}
BeginEventsBefore(k) == {j \in 1..(k - 1) : x_events[j].e = "begin"}

\* C23: in an execution of the rewritten method the state the end-hook receives is the
\* value the begin-hook returned in this execution, or the initial value of the state
\* local if the begin-hook raised; the body in between does not change it
C23_EndHookReceivesBeginHookState ==
    \A k \in EndEvents :
        /\ BeginEventsBefore(k) # {}
        /\ x_events[k].state = IF x_beginHook = "throw" THEN "stateDefault" ELSE "state1"

\* the begin-hook returned its state, the body raised, and the end-hook has been called
C23_StatePassedAcrossRaisingBody ==
    /\ x_phase = "rewritten"
    /\ x_newOut = [kind |-> "throw", val |-> "E_body"]
    /\ x_beginHook = "ok"
    /\ \E k \in EndEvents : x_events[k].state = "state1" /\ x_events[k].exc = "E_body"

\* the value the end-hook's result object holds: the value it was passed, or its own
HookReturnValue(k) == IF x_endHook = "subst" THEN "vSubst" ELSE x_events[k].ret

\* C24: a rewritten non-void method whose original body returns normally returns the
\* value taken from the end-hook's result object when the end-hook completes, and the
\* value the original body returned when the end-hook raises
C24_ReturnsHookValueOrBodyValue ==
    (/\ x_phase = "rewritten"
     /\ x_newOut.kind # "none"
     /\ ~BodyIsVoid(x_body)
     /\ x_origOut.kind = "ret")
    => /\ x_newOut.kind = "ret"
       /\ \E k \in EndEvents :
             x_newOut.val = IF x_endHook = "throw" THEN x_origOut.val ELSE HookReturnValue(k)


(***************************************************************************)
(* Properties of SpecTokens                                                *)
(***************************************************************************)
\* C25: once GetWrapperMethodRef has succeeded for a wrapper method key on a module's
\* record, every later call for that key on that record succeeds, returns the method
\* and parent-type tokens of the first success and emits no assembly reference and no
\* member reference; the tokens cached for the key stay those of the first success
\* until the record is deleted
C25_WrapperRefResolvedOncePerModule ==
    /\ t_call.hit =>
          /\ t_call.ok
          /\ t_call.method = t_resolved[t_call.m][t_call.key].method
          /\ t_call.type = t_resolved[t_call.m][t_call.key].type
          /\ t_call.assemblyRefs = 0
          /\ t_call.memberRefs = 0
    /\ \A m \in DOMAIN t_resolved : \A key \in DOMAIN t_resolved[m] :
          /\ t_resolved[m][key].method # 0
          /\ t_resolved[m][key].type # 0
          /\ TryGetWrapperMemberRef(t_md[m], key) = t_resolved[m][key].method
          /\ TryGetWrapperParentTypeRef(t_md[m], get_type_cache_key(key)) = t_resolved[m][key].type

\* a key was resolved, another key of the same wrapper type was resolved after it, and
\* the first key has been asked for again
C25_SecondCallForResolvedKey ==
    /\ t_call.hit
    /\ t_call.m = 1
    /\ t_call.key = <<"A", "M1">>
    /\ DOMAIN t_resolved[1] = {<<"A", "M1">>, <<"A", "M2">>}
    /\ t_md[1].memberRefs = 2


(***************************************************************************)
(* Properties of SpecLoad                                                  *)
(***************************************************************************)
\* the record and the rewrite state of every module but m are what they were
OtherModulesUnchanged(m) ==
    \A k \in AllModuleIds \ {m} :
        /\ (k \in DOMAIN module_id_to_info_map_) = (k \in DOMAIN module_id_to_info_map_')
        /\ k \in DOMAIN module_id_to_info_map_ =>
              /\ module_id_to_info_map_'[k] = module_id_to_info_map_[k]
              /\ module_id_to_info_map_[k] \in heap'
        /\ (k \in DOMAIN rh_modules) = (k \in DOMAIN rh_modules')
        /\ k \in DOMAIN rh_modules => rh_modules'[k] = rh_modules[k]
        /\ {p \in registeredPairs : p[1] = k} = {p \in registeredPairs' : p[1] = k}

\* C26: ModuleLoadFinished, ModuleUnloadStarted, AssemblyLoadFinished,
\* AppDomainShutdownFinished, JITInlining and JITCachedFunctionSearchStarted return S_OK
\* whatever the host's metadata and function-info calls answer and call through no
\* interface pointer the host did not provide, and a load or unload callback for one
\* module leaves the record and the rewrite state of every other module as they were
C26_CallbacksReturnOkAndTouchOneModule ==
    /\ [](/\ lastReturn.hr \in {"", "S_OK"}
          /\ lastReturn.deref = {}
          /\ \A t \in {"JITInlining", "JITCachedFunctionSearchStarted"} :
                th[t].pc = "ret" => (th[t].hr = "S_OK" /\ th[t].ans # "crash"))
    /\ [][\A m \in AllModuleIds :
             (ModuleLoadFinished(m) \/ ModuleUnloadStarted(m)) => OtherModulesUnchanged(m)]_vars


(***************************************************************************)
(* Properties of Spec: Shutdown against the callbacks of other threads     *)
(***************************************************************************)
\* C27: however Shutdown interleaves with JITInlining and GetReJITParameters on other
\* threads, no callback calls through rejit_handler after Shutdown has deleted the
\* handler and set the pointer to null
C27_NoCallThroughDeletedHandler ==
    \A t \in {"JITInlining", "GetReJITParameters"} : "deleted rejit_handler" \notin th[t].note


(***************************************************************************)
(* Properties of SpecLock                                                  *)
(***************************************************************************)
HoldingFrames(t) == {k \in 1..Len(l_th[t].stack) : l_th[t].stack[k].holds}

\* C28: no thread locks module_id_to_info_map_lock_ while it holds it: a thread holds
\* the mutex in at most one frame, the frames under a holding frame (the scan and the
\* rejit request of ModuleLoadFinished among them) reach no lock_guard, and the rewriter
\* callback that GetReJITParameters reaches through the rejit handler takes the mutex
\* after GetReJITParameters has released it
C28_NoSecondAcquisitionByHolder ==
    \A t \in LockThreads :
        /\ ~l_th[t].selfBlocked
        /\ Cardinality(HoldingFrames(t)) <= 1
        /\ (l_holder = t) = (HoldingFrames(t) # {})
        /\ \A k \in HoldingFrames(t) : \A j \in (k + 1)..Len(l_th[t].stack) :
              \A i \in 1..Len(LockSteps(l_th[t].stack[j].fn)) :
                  LockSteps(l_th[t].stack[j].fn)[i][1] # "acquire"

\* the rewriter callback, reached from GetReJITParameters, holds the mutex
C28_RewriterCallbackHoldsLock ==
    /\ l_holder = "T1"
    /\ Len(l_th["T1"].stack) = 2
    /\ l_th["T1"].stack[1].fn = "GetReJITParameters"
    /\ ~l_th["T1"].stack[1].holds
    /\ l_th["T1"].stack[2].fn = "CallTarget_RewriterCallback"
    /\ l_th["T1"].stack[2].holds


(***************************************************************************)
(* Properties of SpecRedirect                                              *)
(***************************************************************************)
\* C29: every call of RedirectAssemblyReferences returns, whatever EnumAssemblyRefs
\* answers, failures other than S_FALSE included
C29_RedirectAssemblyReferencesReturns == (ar_pc # "idle") ~> (ar_pc = "idle")

\* the target version of a name is left alone once a reference ended at it
TargetKept(n) ==
    ar_ended[n] # {} =>
        assembly_version_redirect_map_'[n].version = assembly_version_redirect_map_[n].version

\* the target version of a name is never lowered
TargetNotLowered(n) ==
    CompareVersions(assembly_version_redirect_map_'[n].version,
                    assembly_version_redirect_map_[n].version) >= 0

\* C30: once a processed reference ended at the redirection's version (redirected to it
\* or already equal to it) the version for that name stays, so all such references
\* ended at one version; and the version for a name is never lowered
C30_TargetVersionFixedOnceUsed ==
    /\ [](\A n \in RedirectNames : Cardinality(ar_ended[n]) <= 1)
    /\ [][\A n \in RedirectNames : TargetKept(n) /\ TargetNotLowered(n)]_vars


\* the iteration of the for loop that has just run, where the reference's properties
\* were read and its name is in the map
IteratedRow == ar_batch[ar_i]
RedirectIteration ==
    /\ ar_pc = "for"
    /\ ar_i' = ar_i + 1
    /\ ar_host'.props
    /\ ar_refs[IteratedRow].name \in DOMAIN assembly_version_redirect_map_

\* C31: a reference above the target raises an unused map entry to its version and
\* counts it, and changes nothing once the entry was used; a reference below the target
\* is set to the target's version, and counted, only when SetAssemblyRefProps says S_OK
C31_RedirectBranches ==
    [][RedirectIteration =>
        LET ref == ar_refs[IteratedRow]
            redirect == assembly_version_redirect_map_[ref.name]
            after == assembly_version_redirect_map_'[ref.name]
            cmp == CompareToAssemblyVersion(redirect, ref.version)
        IN  /\ (cmp < 0 /\ redirect.ulRedirectionCount = 0) =>
                  /\ after = [version |-> ref.version, ulRedirectionCount |-> 1]
                  /\ ar_refs' = ar_refs
            /\ (cmp < 0 /\ redirect.ulRedirectionCount > 0) =>
                  /\ after = redirect
                  /\ ar_refs' = ar_refs
            /\ (cmp > 0 /\ ar_host'.set = "S_OK") =>
                  /\ ar_refs' = [ar_refs EXCEPT ![IteratedRow].version = redirect.version]
                  /\ after = [redirect EXCEPT !.ulRedirectionCount = @ + 1]
            /\ (cmp > 0 /\ ar_host'.set # "S_OK") =>
                  /\ after = redirect
                  /\ ar_refs' = ar_refs]_vars

\* a reference above the target was left alone, the entry having been used before
C31_HigherReferenceLeftAlone ==
    /\ ar_pc = "for"
    /\ ar_i > 1
    /\ ar_i - 1 <= Len(ar_batch)
    /\ ar_host.props
    /\ LET ref == ar_refs[ar_batch[ar_i - 1]] IN
          /\ ref.name \in DOMAIN assembly_version_redirect_map_
          /\ CompareToAssemblyVersion(assembly_version_redirect_map_[ref.name], ref.version) < 0
          /\ assembly_version_redirect_map_[ref.name].ulRedirectionCount > 0


C33_DomainRecordedUntilProfilerModuleUnloads ==
    is_attached_ => profilerAssemblyDomains \subseteq managed_profiler_loaded_app_domains


\* C34: a JITCachedFunctionSearchStarted that resolved the function rejects the cached
\* image exactly when the function's module has a record in the module map and the
\* record's app domain is not in first_jit_compilation_app_domains; otherwise it accepts
C34_CachedImageRejectedIffRecordWithoutLoader ==
    (CachedCall.pc = "ret" /\ CachedCall.ans # "unset") =>
        /\ CachedCall.ans \in {"true", "false"}
        /\ (CachedCall.ans = "false") <=>
              /\ CachedCall.m \in DOMAIN module_id_to_info_map_
              /\ HostModule(CachedCall.m).app_domain_id \notin first_jit_compilation_app_domains

\* the cached image of a function of a module with a record was accepted, the loader
\* being marked in its app domain
C34_AcceptedWithLoaderMarked ==
    /\ CachedCall.pc = "ret"
    /\ CachedCall.ans = "true"
    /\ CachedCall.m \in DOMAIN module_id_to_info_map_
    /\ HostModule(CachedCall.m).app_domain_id \in first_jit_compilation_app_domains


(***************************************************************************)
(* Properties of SpecMatch: integrations that match the same method        *)
(***************************************************************************)
\* the integrations of the catalog that match the method with this token
MatchingIntegrations(token) ==
    {k \in 1..Len(s_catalog) :
        /\ IntegrationIsForModule(s_catalog[k], s_module)
        /\ FoundType(s_catalog[k], s_module)
        /\ \E i \in 1..Len(s_module.methods) :
              /\ s_module.methods[i].token = token
              /\ s_module.methods[i].type = s_catalog[k].type_name
              /\ s_module.methods[i].name = s_catalog[k].method_name
              /\ MethodIsTarget(s_module.methods[i], s_catalog[k])}

ModuleTokens == {s_module.methods[i].token : i \in 1..Len(s_module.methods)}

\* C35: a method that several integrations of the catalog match in one scan has one
\* entry in the rejit handler, holding the function info and the method replacement of
\* the last of them in catalog order, and its token is in the RequestRejit batch once
\* for each of them
C35_LastIntegrationWinsTokenPerMatch ==
    s_pc = "done" =>
        \A token \in ModuleTokens :
            LET ks == MatchingIntegrations(token) IN
            /\ (token \in DOMAIN s_result.methods) <=> (ks # {})
            /\ ks # {} => /\ s_result.methods[token] \in ks
                          /\ \A k \in ks : k <= s_result.methods[token]
            /\ Cardinality({j \in 1..Len(s_result.vtMethodDefs) :
                               s_result.vtMethodDefs[j] = token}) = Cardinality(ks)

\* a scan in which two integrations matched the same method
C35_TwoIntegrationsMatchOneMethod ==
    /\ s_pc = "done"
    /\ \E token \in ModuleTokens : Cardinality(MatchingIntegrations(token)) = 2


(***************************************************************************)
(* Properties of Spec: the state behind a rejit request                    *)
(***************************************************************************)
\* the module has its record and the rejit handler has an entry for the method with a
\* metadata reference, the function info and the integration
CompleteRewriteState(m, tok) ==
    /\ m \in DOMAIN module_id_to_info_map_
    /\ m \in DOMAIN rh_modules
    /\ rh_modules[m].metadata # NoPtr
    /\ tok \in DOMAIN rh_modules[m].methods

C37_AttachedOnlyFallsAfterInitialize ==
    /\ [](is_attached_ => initialized)
    /\ [][/\ (~is_attached_ /\ is_attached_') => (Initialize /\ rejit_handler' = "live")
          /\ (is_attached_ /\ ~is_attached_') => (Shutdown_Store \/ ProfilerDetachSucceeded)
          /\ (initialized /\ ~is_attached_) => ~is_attached_'
          /\ ProfilerDetachSucceeded => is_attached_]_vars

\* a profiler that was attached and stored a record, then detached by
\* ProfilerDetachSucceeded, not by Shutdown
C37_DetachedWithRecords ==
    /\ initialized
    /\ ~is_attached_
    /\ rejit_handler = "live"
    /\ module_id_to_info_map_ # <<>>


(***************************************************************************)
(* The exception table of a rewritten body.  A protected region runs from  *)
(* tryBegin up to, not including, tryEnd; a handler runs from handlerBegin *)
(* through handlerEnd.                                                     *)
(***************************************************************************)
TryRegion(code, c) == Pos(code, c.tryBegin) .. (Pos(code, c.tryEnd) - 1)
HandlerRegion(code, c) == Pos(code, c.handlerBegin) .. Pos(code, c.handlerEnd)
ClauseRegion(code, c) == TryRegion(code, c) \cup HandlerRegion(code, c)

ClauseBounded(code, c) ==
    /\ Pos(code, c.tryBegin) > 0 /\ Pos(code, c.tryEnd) > Pos(code, c.tryBegin)
    /\ Pos(code, c.handlerBegin) > 0 /\ Pos(code, c.handlerEnd) >= Pos(code, c.handlerBegin)

\* index in the table of the clause whose handler begins at the instruction id
ClauseAt(clauses, id) ==
    IF \E j \in 1..Len(clauses) : clauses[j].handlerBegin = id
    THEN CHOOSE j \in 1..Len(clauses) : clauses[j].handlerBegin = id
    ELSE 0

PreExisting(clauses) ==
    {j \in 1..Len(clauses) : clauses[j].handlerBegin \in
                                {BodyClauses(x_body)[k].handlerBegin :
                                    k \in 1..Len(BodyClauses(x_body))}}

\* C38: in the exception table a successful rewrite installs, the begin-hook guard and
\* every pre-existing clause lie inside the outer catch's protected region, the outer
\* catch's protected region and handler lie inside the finally clause's protected
\* region, the end-hook guard lies inside the finally handler, and every enclosed clause
\* comes before its enclosing clause in the table
C38_RewrittenTableNestedAndOrdered ==
    x_phase = "rewritten" =>
        LET beginGuard == ClauseAt(x_clauses, NewId("beginMethodCatchFirstInstr"))
            endGuard   == ClauseAt(x_clauses, NewId("endMethodCatchFirstInstr"))
            outer      == ClauseAt(x_clauses, NewId("startExceptionCatch"))
            finally    == CHOOSE j \in 0..Len(x_clauses) :
                             \/ j > 0 /\ x_clauses[j].flags = "finally"
                                      /\ x_clauses[j].handlerEnd = NewId("endFinallyInstr")
                             \/ j = 0 /\ ~\E k \in 1..Len(x_clauses) :
                                            /\ x_clauses[k].flags = "finally"
                                            /\ x_clauses[k].handlerEnd = NewId("endFinallyInstr")
        IN  /\ beginGuard > 0 /\ endGuard > 0 /\ outer > 0 /\ finally > 0
            /\ Len(x_clauses) = Len(BodyClauses(x_body)) + 4
            /\ \A j \in 1..Len(x_clauses) : ClauseBounded(x_code, x_clauses[j])
            /\ ClauseRegion(x_code, x_clauses[beginGuard])
                  \subseteq TryRegion(x_code, x_clauses[outer])
            /\ \A j \in PreExisting(x_clauses) :
                  /\ ClauseRegion(x_code, x_clauses[j])
                        \subseteq TryRegion(x_code, x_clauses[outer])
                  /\ j < outer
            /\ ClauseRegion(x_code, x_clauses[outer])
                  \subseteq TryRegion(x_code, x_clauses[finally])
            /\ ClauseRegion(x_code, x_clauses[endGuard])
                  \subseteq HandlerRegion(x_code, x_clauses[finally])
            /\ beginGuard < outer
            /\ outer < finally
            /\ endGuard < finally

\* a body with a clause of its own has been rewritten
C38_RewrittenBodyWithOwnClause ==
    /\ x_phase = "rewritten"
    /\ Len(BodyClauses(x_body)) > 0
    /\ Len(x_clauses) = Len(BodyClauses(x_body)) + 4

====
